---------------------------- MODULE Spec2Model ----------------------------
(***************************************************************************)
(* Model of the document classification and placement pipeline of          *)
(* IBDOWNLOAD_PACKAGER: word_to_pdf.py (classification of converted Word   *)
(* documents and of existing PDFs), reorganize_output.py (bucketing,       *)
(* country folders, document-type folders).                                *)
(*                                                                         *)
(* Strings of the program are sequences of one-character strings, so that  *)
(* the regular expressions, the formatting and the string methods of the   *)
(* code are computed character by character.  The only whitespace in the   *)
(* texts is the space.                                                     *)
(*                                                                         *)
(* The output directory is a function from the paths of its files to what  *)
(* they hold; directories exist when a file lies in them.  File names are  *)
(* compared exactly.  os.rename is the one of Windows, which the converter *)
(* requires: it raises when the destination exists; shutil.copy2 replaces. *)
(* The documents of one run are processed one after the other, in any      *)
(* order; rename_with_pid is True, as __main__ passes it.                  *)
(***************************************************************************)
EXTENDS Integers, Sequences, FiniteSets, TLC

(***************************************************************************)
(* Characters and the string methods the code uses.                        *)
(***************************************************************************)
Digits == <<"0", "1", "2", "3", "4", "5", "6", "7", "8", "9">>

UpperLetters ==
    <<"A", "B", "C", "D", "E", "F", "G", "H", "I", "J", "K", "L", "M",
      "N", "O", "P", "Q", "R", "S", "T", "U", "V", "W", "X", "Y", "Z">>

LowerLetters ==
    <<"a", "b", "c", "d", "e", "f", "g", "h", "i", "j", "k", "l", "m",
      "n", "o", "p", "q", "r", "s", "t", "u", "v", "w", "x", "y", "z">>

DigitSet == {Digits[i] : i \in 1..10}

UpperSet == {UpperLetters[i] : i \in 1..26}

LowerSet == {LowerLetters[i] : i \in 1..26}

\* \d of the regular expressions
IsDigit(c) == c \in DigitSet

IsUpper(c) == c \in UpperSet

IsLower(c) == c \in LowerSet

IsLetter(c) == IsUpper(c) \/ IsLower(c)

\* \w of the regular expressions
IsWordChar(c) == IsLetter(c) \/ IsDigit(c) \/ c = "_"

\* whitespace removed by str.strip() and split on by str.split()
IsSpace(c) == c = " "

LowerChar(c) ==
    IF IsUpper(c) THEN LowerLetters[CHOOSE i \in 1..26 : UpperLetters[i] = c]
    ELSE c

UpperChar(c) ==
    IF IsLower(c) THEN UpperLetters[CHOOSE i \in 1..26 : LowerLetters[i] = c]
    ELSE c

\* the string s with every character replaced by one of the three maps below
MapChars(s, kind) ==
    [k \in 1..Len(s) |->
        CASE kind = "lower" -> LowerChar(s[k])
          [] kind = "upper" -> UpperChar(s[k])
          [] kind = "title" -> IF k > 1 /\ IsLetter(s[k - 1]) THEN LowerChar(s[k])
                               ELSE UpperChar(s[k])]

\* str.lower()
Lower(s) == MapChars(s, "lower")

\* str.upper()
Upper(s) == MapChars(s, "upper")

\* str.title(): a letter is upper-cased unless the character before it is a letter
Title(s) == MapChars(s, "title")

\* str.startswith
StartsWith(s, p) == Len(s) >= Len(p) /\ SubSeq(s, 1, Len(p)) = p

\* str.endswith
EndsWith(s, p) ==
    Len(s) >= Len(p) /\ SubSeq(s, Len(s) - Len(p) + 1, Len(s)) = p

RECURSIVE ReplaceChar(_, _, _)
\* str.replace(a, b) for one-character a
ReplaceChar(s, a, b) ==
    IF s = <<>> THEN <<>>
    ELSE (IF Head(s) = a THEN b ELSE <<Head(s)>>) \o ReplaceChar(Tail(s), a, b)

\* str.lstrip()
LStrip(s) ==
    IF \A i \in 1..Len(s) : IsSpace(s[i]) THEN <<>>
    ELSE SubSeq(s, CHOOSE i \in 1..Len(s) :
                       ~IsSpace(s[i]) /\ \A j \in 1..(i - 1) : IsSpace(s[j]),
                Len(s))

\* str.rstrip()
RStrip(s) ==
    IF \A i \in 1..Len(s) : IsSpace(s[i]) THEN <<>>
    ELSE SubSeq(s, 1, CHOOSE i \in 1..Len(s) :
                          ~IsSpace(s[i]) /\ \A j \in (i + 1)..Len(s) : IsSpace(s[j]))

\* str.strip()
Strip(s) == RStrip(LStrip(s))

RECURSIVE CollapseSpaces(_)
\* ' '.join(s.split()): runs of whitespace become one space, none at the ends
CollapseSpaces(s) ==
    LET t == LStrip(s)
    IN  IF t = <<>> THEN <<>>
        ELSE LET n == CHOOSE k \in 1..Len(t) :
                        /\ \A j \in 1..k : ~IsSpace(t[j])
                        /\ (k = Len(t) \/ IsSpace(t[k + 1]))
                 rest == CollapseSpaces(SubSeq(t, n + 1, Len(t)))
             IN  SubSeq(t, 1, n) \o (IF rest = <<>> THEN <<>> ELSE <<" ">> \o rest)

\* the largest index of character c in s, 0 when there is none (str.rfind + 1)
LastIndexOf(s, c) ==
    IF \E i \in 1..Len(s) : s[i] = c
    THEN CHOOSE i \in 1..Len(s) : s[i] = c /\ \A j \in (i + 1)..Len(s) : s[j] # c
    ELSE 0

AllDigits(s) == s # <<>> /\ \A i \in 1..Len(s) : IsDigit(s[i])

AllLowerLetters(s) == s # <<>> /\ \A i \in 1..Len(s) : IsLower(s[i])

RECURSIVE DecDigits(_)
\* the decimal digits of n >= 0
DecDigits(n) ==
    IF n < 10 THEN <<Digits[n + 1]>>
    ELSE DecDigits(n \div 10) \o <<Digits[(n % 10) + 1]>>

\* the mutant: f"{counter}", no leading zero
FormatPlain(n) == DecDigits(n)

\* f"{counter:02d}"
Format02d(n) == IF n < 10 THEN <<"0">> \o DecDigits(n) ELSE DecDigits(n)

\* os.path.splitext(filename): <<root, ext>>
SplitExt(f) ==
    LET d == LastIndexOf(f, ".")
    IN  IF d = 0 \/ \A j \in 1..(d - 1) : f[j] = "."
        THEN <<f, <<>>>>
        ELSE <<SubSeq(f, 1, d - 1), SubSeq(f, d, Len(f))>>

\* pathlib.Path(file_path).stem
Stem(f) ==
    LET d == LastIndexOf(f, ".")
    IN  IF 1 < d /\ d < Len(f) THEN SubSeq(f, 1, d - 1) ELSE f

(***************************************************************************)
(* String constants of the code.                                           *)
(***************************************************************************)
ExtPdf == <<".", "p", "d", "f">>

ExtDoc == <<".", "d", "o", "c">>

ExtDocx == <<".", "d", "o", "c", "x">>

LangEN == <<"E", "N">>

LangNON == <<"N", "O", "N">>

LangUNK == <<"U", "N", "K">>

LangOCR == <<"O", "C", "R">>

\* the four language tags, as written in the patterns of organize_by_country
LangTags == {LangEN, LangNON, LangUNK, LangOCR}

\* "COUNTRY_"
CountryPrefix == <<"C", "O", "U", "N", "T", "R", "Y", "_">>

\* "UNKNOWN_"
UnknownPrefix == <<"U", "N", "K", "N", "O", "W", "N", "_">>

\* "SCAN_OCR_DOCUMENT"
ScanOcrDocument ==
    <<"S", "C", "A", "N", "_", "O", "C", "R", "_",
      "D", "O", "C", "U", "M", "E", "N", "T">>

\* "Country Associated Documents"
CountryFolderName ==
    <<"C", "o", "u", "n", "t", "r", "y", " ",
      "A", "s", "s", "o", "c", "i", "a", "t", "e", "d", " ",
      "D", "o", "c", "u", "m", "e", "n", "t", "s">>

\* "Unknown Countries"
UnknownFolderName ==
    <<"U", "n", "k", "n", "o", "w", "n", " ",
      "C", "o", "u", "n", "t", "r", "i", "e", "s">>

\* "Failed Conversions and Renaming"
FailedFolderName ==
    <<"F", "a", "i", "l", "e", "d", " ",
      "C", "o", "n", "v", "e", "r", "s", "i", "o", "n", "s", " ",
      "a", "n", "d", " ", "R", "e", "n", "a", "m", "i", "n", "g">>

(***************************************************************************)
(* The file system.  A path is a directory (the folder names below the     *)
(* output directory) and a file name; fs maps the paths of the files that  *)
(* exist to the document each holds; dirs holds the folders that exist,    *)
(* the output directory left out.                                          *)
(***************************************************************************)
MkPath(dir, name) == [dir |-> dir, name |-> name]

\* the output directory itself
RootDir == <<>>

country_folder == <<CountryFolderName>>

unknown_folder == <<UnknownFolderName>>

failed_folder == <<FailedFolderName>>

\* os.path.exists for a file path
Exists(files, p) == p \in DOMAIN files

\* the file system with a file of content d at path p (a write replaces)
WriteFile(files, p, d) ==
    [q \in (DOMAIN files) \cup {p} |-> IF q = p THEN d ELSE files[q]]

RemoveFile(files, p) == [q \in (DOMAIN files) \ {p} |-> files[q]]

\* os.rename / shutil.move of a file: dst holds what src held, src is gone
MoveFile(files, src, dst) ==
    IF src = dst THEN files
    ELSE RemoveFile(WriteFile(files, dst, files[src]), src)

\* shutil.copy2
CopyFile(files, src, dst) == WriteFile(files, dst, files[src])

(***************************************************************************)
(* Conflict resolution: the counter loop written out at every place that   *)
(* finalizes a name, and get_unique_filename.                              *)
(***************************************************************************)
\* the mutant: the first suffixed name is taken without probing it
FirstSuffixUnprobed(files, dir, base, ext, counter) ==
    base \o <<"_">> \o Format02d(counter) \o ext

RECURSIVE CounterLoop(_, _, _, _, _)
\* while True: new = f"{base}_{counter:02d}{ext}"; if not exists: break; counter += 1
CounterLoop(files, dir, base, ext, counter) ==
    LET new_filename == base \o <<"_">> \o Format02d(counter) \o ext
    IN  IF ~Exists(files, MkPath(dir, new_filename)) THEN new_filename
        ELSE CounterLoop(files, dir, base, ext, counter + 1)

\* if os.path.exists(path): <counter loop>; the name used in directory dir
ResolveName(files, dir, base, ext) ==
    IF Exists(files, MkPath(dir, base \o ext)) THEN CounterLoop(files, dir, base, ext, 1)
    ELSE base \o ext

\* get_unique_filename(base_path)
get_unique_filename(files, base_path) ==
    IF ~Exists(files, base_path) THEN base_path
    ELSE LET se == SplitExt(base_path.name)
         IN  MkPath(base_path.dir,
                    CounterLoop(files, base_path.dir, se[1], se[2], 1))

\* the probe written in reorganize_output.py: base, ext = os.path.splitext(filename)
ResolveFilename(files, dir, filename) ==
    LET se == SplitExt(filename)
    IN  ResolveName(files, dir, se[1], se[2])

(***************************************************************************)
(* reorganize_output.py: the patterns on file names.                       *)
(***************************************************************************)
\* pid_pattern = re.compile(r'^P\d{6}') ; pid_pattern.match(filename)
MatchesPidPrefix(filename) ==
    /\ Len(filename) >= 7
    /\ filename[1] = "P"
    /\ \A i \in 2..7 : IsDigit(filename[i])

\* re.search(r'(_\d+)$', base): the suffix, <<>> when there is none
NumericSuffix(base) ==
    LET u == LastIndexOf(base, "_")
    IN  IF u > 0 /\ AllDigits(SubSeq(base, u + 1, Len(base)))
        THEN SubSeq(base, u, Len(base))
        ELSE <<>>

\* the new file name with the document type added
AddDocumentType(filename, document_type) ==
    LET se == SplitExt(filename)
        base == se[1]
        ext == se[2]
        suffix == NumericSuffix(base)
    IN  IF suffix # <<>>
        THEN SubSeq(base, 1, Len(base) - Len(suffix))
                 \o <<"_">> \o document_type \o suffix \o ext
        ELSE base \o <<"_">> \o document_type \o ext

\* the mutant: the identifier pattern is not anchored to six digits
TargetFolderLoosePid(filename) ==
    IF StartsWith(filename, CountryPrefix) \/ StartsWith(filename, <<"P">>)
    THEN country_folder
    ELSE IF StartsWith(filename, UnknownPrefix) THEN unknown_folder
    ELSE failed_folder

\* "Determine the target folder"
TargetFolder(filename) ==
    IF StartsWith(filename, CountryPrefix) \/ MatchesPidPrefix(filename)
    THEN country_folder
    ELSE IF StartsWith(filename, UnknownPrefix) THEN unknown_folder
    ELSE failed_folder

\* (?:_[^_]+)?(?:_\d+)?\.pdf$ matches all of t
TailMatches(t) ==
    /\ EndsWith(t, ExtPdf)
    /\ LET b == SubSeq(t, 1, Len(t) - Len(ExtPdf))
       IN  \/ b = <<>>
           \/ /\ Len(b) >= 2
              /\ b[1] = "_"
              /\ LET x == Tail(b)
                     us == {i \in 1..Len(x) : x[i] = "_"}
                 IN  \/ us = {}
                     \/ \E u \in us :
                           /\ us = {u}
                           /\ u > 1
                           /\ AllDigits(SubSeq(x, u + 1, Len(x)))

\* _(EN|NON|UNK|OCR)(?:_[^_]+)?(?:_\d+)?\.pdf$ matches all of r
LangTailMatches(r) ==
    \E L \in LangTags :
        /\ StartsWith(r, <<"_">> \o L)
        /\ TailMatches(SubSeq(r, Len(L) + 2, Len(r)))

\* group 1 of ^<8 characters>(.+?)_(EN|NON|UNK|OCR)(?:_[^_]+)?(?:_\d+)?\.pdf$
\* (the lazy group is the shortest that lets the rest match), <<>> for no match
LazyCountryGroup(filename) ==
    LET ks == {k \in 1..(Len(filename) - 8) :
                  LangTailMatches(SubSeq(filename, 9 + k, Len(filename)))}
    IN  IF ks = {} THEN <<>>
        ELSE LET k == CHOOSE m \in ks : \A n \in ks : m <= n
             IN  SubSeq(filename, 9, 8 + k)

\* "Extract country from filename" of organize_by_country, <<>> for None
CountryOfFilename(filename) ==
    IF StartsWith(filename, <<"P">>)
    THEN IF MatchesPidPrefix(filename) /\ Len(filename) >= 8 /\ filename[8] = "_"
         THEN LazyCountryGroup(filename)
         ELSE <<>>
    ELSE IF StartsWith(filename, CountryPrefix) THEN LazyCountryGroup(filename)
    ELSE <<>>

\* the mutant: the underscores are kept
standardize_country_name_as_spelled(country_name) ==
    Title(CollapseSpaces(country_name))

standardize_country_name(country_name) ==
    Title(CollapseSpaces(ReplaceChar(country_name, "_", <<" ">>)))

\* the characters re.sub(r'[\\/*?:"<>|,]', '_', ...) replaces
UnsafeChars == {"\\", "/", "*", "?", ":", "\"", "<", ">", "|", ","}

RECURSIVE ReplaceUnsafe(_)
ReplaceUnsafe(s) ==
    IF s = <<>> THEN <<>>
    ELSE <<IF Head(s) \in UnsafeChars THEN "_" ELSE Head(s)>> \o ReplaceUnsafe(Tail(s))

safe_folder_name(country_name) ==
    ReplaceUnsafe(ReplaceChar(country_name, " ", <<"_">>))

\* the letters after the last "_" of b when b ends in "_" and letters, else <<>>
TypeAtEnd(b) ==
    LET u == LastIndexOf(b, "_")
    IN  IF u > 0 /\ AllLowerLetters(SubSeq(b, u + 1, Len(b)))
        THEN SubSeq(b, u + 1, Len(b))
        ELSE <<>>

\* group 1 of doc_type_pattern.search(filename.lower()), <<>> for no match
DocTypeMatch(filename) ==
    LET n == Lower(filename)
    IN  IF ~EndsWith(n, ExtPdf) THEN <<>>
        ELSE LET b == SubSeq(n, 1, Len(n) - Len(ExtPdf))
                 suffix == NumericSuffix(b)
             IN  IF TypeAtEnd(b) # <<>> THEN TypeAtEnd(b)
                 ELSE IF suffix # <<>>
                      THEN TypeAtEnd(SubSeq(b, 1, Len(b) - Len(suffix)))
                      ELSE <<>>

\* the document type of a file in organize_by_document_type, <<>> for none
DocTypeOfFilename(filename) ==
    LET t == DocTypeMatch(filename)
    IN  IF t \in {Lower(L) : L \in LangTags} THEN <<>> ELSE t

(***************************************************************************)
(* word_to_pdf.py: what is read from a document.  A document is a record   *)
(*   file     : its file name in the input directory                       *)
(*   pages    : the text page.extract_text() gives for each page           *)
(*              (RaisingPage for a page on which it raises)                *)
(*   readable : FALSE when opening or reading the PDF raises               *)
(*   lang     : what langdetect's detect() answers for its text            *)
(*              ("en", another language code, or "fail" when it raises     *)
(*              LangDetectException)                                       *)
(***************************************************************************)
\* max_pages=10 of extract_project_id and extract_country_from_pdf
MaxSearchPages == 10

\* pages_to_check=3 of detect_language
PagesToCheck == 3

\* len(all_text.strip()) < 50
ScanThreshold == 50

\* len(all_text) > 100
DetectThreshold == 100

\* len(all_text) > 1000: break
EnoughText == 1000

Min(a, b) == IF a < b THEN a ELSE b

\* the positions where r'P[0-9O]{6}' matches in text
PidMatchStarts(text) ==
    {i \in 1..(Len(text) - 6) :
        /\ text[i] = "P"
        /\ \A j \in (i + 1)..(i + 6) : IsDigit(text[j]) \/ text[j] = "O"}

\* the mutant: the first match is returned as it was read
FirstPidUncorrected(text) ==
    LET starts == PidMatchStarts(text)
    IN  IF starts = {} THEN <<>>
        ELSE LET i == CHOOSE m \in starts : \A n \in starts : m <= n
             IN  SubSeq(text, i, i + 6)

\* 'P' + pid[1:].replace('O', '0') of the first match of the page, <<>> for none
FirstPidOfPage(text) ==
    LET starts == PidMatchStarts(text)
    IN  IF starts = {} THEN <<>>
        ELSE LET i == CHOOSE m \in starts : \A n \in starts : m <= n
             IN  <<"P">> \o ReplaceChar(SubSeq(text, i + 1, i + 6), "O", <<"0">>)

\* a page whose extract_text() raises
RaisingPage == <<"raise">>

RECURSIVE PidFromPageSkipping(_, _, _)
\* the search goes on after a page that raises
PidFromPageSkipping(pages, page_num, pages_to_search) ==
    IF page_num > pages_to_search THEN <<>>
    ELSE IF pages[page_num] # RaisingPage /\ FirstPidOfPage(pages[page_num]) # <<>>
    THEN FirstPidOfPage(pages[page_num])
    ELSE PidFromPageSkipping(pages, page_num + 1, pages_to_search)

RECURSIVE PidFromPage(_, _, _)
\* for page_num in range(pages_to_search): the first page with a match decides
PidFromPage(pages, page_num, pages_to_search) ==
    IF page_num > pages_to_search THEN <<>>
    ELSE IF pages[page_num] = RaisingPage THEN <<>>
    ELSE IF FirstPidOfPage(pages[page_num]) # <<>> THEN FirstPidOfPage(pages[page_num])
    ELSE PidFromPage(pages, page_num + 1, pages_to_search)

\* the text gives no identifier
extract_project_id_nothing(doc) == <<>>

\* extract_project_id(pdf_path), <<>> for None
extract_project_id(doc) ==
    IF ~doc.readable THEN <<>>
    ELSE PidFromPage(doc.pages, 1, Min(Len(doc.pages), MaxSearchPages))

\* extract_project_id_from_filename(filename): r'P\d{6}[-_]', <<>> for None
extract_project_id_from_filename(filename) ==
    LET starts == {i \in 1..(Len(filename) - 7) :
                      /\ filename[i] = "P"
                      /\ \A j \in (i + 1)..(i + 6) : IsDigit(filename[j])
                      /\ filename[i + 7] \in {"-", "_"}}
    IN  IF starts = {} THEN <<>>
        ELSE LET i == CHOOSE m \in starts : \A n \in starts : m <= n
             IN  SubSeq(filename, i, i + 6)

RECURSIVE AllText(_, _, _, _)
\* the loop of detect_language that concatenates the text of the checked pages
\* (RaisingPage when it reads a page that raises)
AllText(pages, page_num, pages_to_check, all_text) ==
    IF page_num > pages_to_check THEN all_text
    ELSE LET text == pages[page_num]
             more == all_text \o text
         IN  IF text = RaisingPage THEN RaisingPage
             ELSE IF text = <<>> THEN AllText(pages, page_num + 1, pages_to_check, all_text)
             ELSE IF Len(more) > EnoughText THEN more
             ELSE AllText(pages, page_num + 1, pages_to_check, more)

\* the mutant: the scanned-document check is skipped
detect_language_no_scan_check(doc) ==
    IF ~doc.readable THEN LangUNK
    ELSE LET all_text == AllText(doc.pages, 1, Min(Len(doc.pages), PagesToCheck), <<>>)
         IN  IF all_text = RaisingPage THEN LangUNK
             ELSE IF Len(all_text) > DetectThreshold
             THEN (IF doc.lang = "fail" THEN LangUNK
                   ELSE IF doc.lang = "en" THEN LangEN ELSE LangNON)
             ELSE IF Len(all_text) > 0 THEN LangUNK ELSE LangOCR

\* the mutant: detection is attempted from 100 characters on
detect_language_from_threshold(doc) ==
    IF ~doc.readable THEN LangUNK
    ELSE LET all_text == AllText(doc.pages, 1, Min(Len(doc.pages), PagesToCheck), <<>>)
         IN  IF all_text = RaisingPage THEN LangUNK
             ELSE IF Len(Strip(all_text)) < ScanThreshold /\ Len(doc.pages) > 0 THEN LangOCR
             ELSE IF Len(all_text) >= DetectThreshold
             THEN (IF doc.lang = "fail" THEN LangUNK
                   ELSE IF doc.lang = "en" THEN LangEN ELSE LangNON)
             ELSE IF Len(all_text) > 0 THEN LangUNK ELSE LangOCR

\* detect_language(pdf_path)
detect_language(doc) ==
    IF ~doc.readable THEN LangUNK
    ELSE LET all_text == AllText(doc.pages, 1, Min(Len(doc.pages), PagesToCheck), <<>>)
         IN  IF all_text = RaisingPage THEN LangUNK
             ELSE IF Len(Strip(all_text)) < ScanThreshold /\ Len(doc.pages) > 0 THEN LangOCR
             ELSE IF Len(all_text) > DetectThreshold
             THEN (IF doc.lang = "fail" THEN LangUNK
                   ELSE IF doc.lang = "en" THEN LangEN ELSE LangNON)
             ELSE IF Len(all_text) > 0 THEN LangUNK ELSE LangOCR

(***************************************************************************)
(* Country matching.  A country mapping is a function from project         *)
(* identifiers to country names.                                           *)
(***************************************************************************)
\* extract_unique_countries(country_mapping)
extract_unique_countries(country_mapping) ==
    {c \in {country_mapping[k] : k \in DOMAIN country_mapping} :
        Strip(Lower(c)) # <<"w", "o", "r", "l", "d">>}

\* \b at the gap before position i of text (i = Len(text) + 1: the end)
WordBoundary(text, i) ==
    LET before == i > 1 /\ IsWordChar(text[i - 1])
        after == i <= Len(text) /\ IsWordChar(text[i])
    IN  before # after

\* re.compile(r'\b' + re.escape(name) + r'\b', re.IGNORECASE).search(text)
PatternSearch(name, text) ==
    \E i \in 1..(Len(text) - Len(name) + 1) :
        /\ WordBoundary(text, i)
        /\ WordBoundary(text, i + Len(name))
        /\ Lower(SubSeq(text, i, i + Len(name) - 1)) = Lower(name)

\* the mutant: sorted(country_names, key=len), the shortest name first
SortedCountriesAscending(country_names) ==
    LET n == Cardinality(country_names)
    IN  {order \in [1..n -> country_names] :
            /\ \A i, j \in 1..n : i # j => order[i] # order[j]
            /\ \A i, j \in 1..n : i < j => Len(order[i]) <= Len(order[j])}

\* the orders sorted(country_names, key=len, reverse=True) can give: a set has
\* no order of its own, and names of equal length keep the order they come in
SortedCountries(country_names) ==
    LET n == Cardinality(country_names)
    IN  {order \in [1..n -> country_names] :
            /\ \A i, j \in 1..n : i # j => order[i] # order[j]
            /\ \A i, j \in 1..n : i < j => Len(order[i]) >= Len(order[j])}

\* a dict: keys in insertion order, a lookup by key
EmptyDict == [keys |-> <<>>, val |-> <<>>]

HasKey(d, k) == \E i \in 1..Len(d.keys) : d.keys[i] = k

\* d[k] = v: a new key goes last, an old one keeps its place
DictSet(d, k, v) ==
    IF HasKey(d, k)
    THEN [d EXCEPT !.val = [i \in 1..Len(d.keys) |->
                               IF d.keys[i] = k THEN v ELSE d.val[i]]]
    ELSE [keys |-> Append(d.keys, k), val |-> Append(d.val, v)]

\* d.get(k, default)
DictGet(d, k, default) ==
    IF HasKey(d, k) THEN d.val[CHOOSE i \in 1..Len(d.keys) : d.keys[i] = k]
    ELSE default

RECURSIVE VariantDict(_, _, _)
\* variant_to_standard as process_file builds it from COUNTRY_VARIANTS
\* (a sequence of [standard, variants]): each variant, lower-cased, then the
\* standard name itself
VariantDict(table, i, d) ==
    IF i > Len(table) THEN d
    ELSE LET e == table[i]
             withVariants[j \in 0..Len(e.variants)] ==
                 IF j = 0 THEN d
                 ELSE DictSet(withVariants[j - 1], Lower(e.variants[j]), e.standard)
         IN  VariantDict(table, i + 1,
                         DictSet(withVariants[Len(e.variants)],
                                 Lower(e.standard), e.standard))

RECURSIVE StandardPatterns(_, _, _)
\* "First add all standard country names": st is [patterns, variant_to_standard],
\* patterns the names of all_country_patterns in insertion order
StandardPatterns(sorted_countries, i, st) ==
    IF i > Len(sorted_countries) THEN st
    ELSE LET country == sorted_countries[i]
             space_country == ReplaceChar(country, "_", <<" ">>)
             p1 == DictSet(st.patterns, country, country)
         IN  StandardPatterns(sorted_countries, i + 1,
                 IF space_country # country
                 THEN [patterns |-> DictSet(p1, space_country, space_country),
                       variant_to_standard |->
                           DictSet(st.variant_to_standard, Lower(space_country), country)]
                 ELSE [patterns |-> p1,
                       variant_to_standard |-> st.variant_to_standard])

RECURSIVE VariantPatterns(_, _, _)
\* "Add all variants if provided"
VariantPatterns(country_variants, i, st) ==
    IF i > Len(country_variants.keys) THEN st
    ELSE LET variant == country_variants.keys[i]
             standard == country_variants.val[i]
         IN  VariantPatterns(country_variants, i + 1,
                 IF ~HasKey(st.variant_to_standard, Lower(variant))
                 THEN [patterns |-> DictSet(st.patterns, variant, variant),
                       variant_to_standard |->
                           DictSet(st.variant_to_standard, Lower(variant), standard)]
                 ELSE st)

RECURSIVE SearchPatterns(_, _, _)
\* "Check each pattern": the name of the first pattern found in text, <<>> for none
SearchPatterns(names, i, text) ==
    IF i > Len(names) THEN <<>>
    ELSE IF PatternSearch(names[i], text) THEN names[i]
    ELSE SearchPatterns(names, i + 1, text)

RECURSIVE SearchPages(_, _, _, _)
\* for page_num in range(pages_to_search): the first page with a match decides
SearchPages(pages, page_num, pages_to_search, st) ==
    IF page_num > pages_to_search THEN <<>>
    ELSE LET text == pages[page_num]
             name == IF text = <<>> THEN <<>>
                     ELSE SearchPatterns(st.patterns.keys, 1, text)
         IN  IF text = RaisingPage THEN <<>>
             ELSE IF name # <<>>
             THEN DictGet(st.variant_to_standard, Lower(name), name)
             ELSE SearchPages(pages, page_num + 1, pages_to_search, st)

\* extract_country_from_pdf(pdf_path, country_names, country_variants=...), with
\* the order the sort gave; <<>> for None
extract_country_from_pdf(doc, country_names, sorted_countries, country_variants) ==
    IF country_names = {} THEN <<>>
    ELSE IF ~doc.readable THEN <<>>
    ELSE SearchPages(doc.pages, 1, Min(Len(doc.pages), MaxSearchPages),
             VariantPatterns(country_variants, 1,
                 StandardPatterns(sorted_countries, 1,
                     [patterns |-> EmptyDict, variant_to_standard |-> EmptyDict])))

(***************************************************************************)
(* The documents of the input directory a run can be given, and the        *)
(* spreadsheet and the country_variants table it can load.  The input      *)
(* files sit at the top of the input directory, so target_dir is the       *)
(* output directory itself.                                                *)
(***************************************************************************)
\* a run of n letters without a space
Fill(n) == [i \in 1..n |-> "x"]

\* a first page long enough for detect() to be asked
Body == Fill(101)

NoPage == <<>>

Document(file, pages, lang) ==
    [file |-> file, pages |-> pages, readable |-> TRUE, lang |-> lang]

\* documents whose file name carries an identifier other than the one of
\* their text, documents that cannot be opened as a PDF, documents with a
\* page whose text cannot be extracted
BatchDocs ==
    << Document(<<"P", "4", "4", "4", "4", "4", "4", "_", "x", ".", "p", "d", "f">>, <<Body \o <<" ", "P", "1", "2", "3", "4", "5", "6">>>>, "en"),
       Document(<<"P", "4", "4", "4", "4", "4", "4", "-", "y", ".", "d", "o", "c", "x">>, <<Body \o <<" ", "P", "1", "2", "3", "4", "5", "6", " ", "K", "e", "n", "y", "a">>>>, "en"),
       Document(<<"P", "5", "5", "5", "5", "5", "5", "_", "z", ".", "d", "o", "c">>, <<Body \o <<" ", "p", "1", "2", "3", "4", "5", "6">>>>, "en"),
       [Document(<<"r", ".", "p", "d", "f">>, <<Body \o <<" ", "P", "1", "2", "3", "4", "5", "6", " ", "K", "e", "n", "y", "a">>>>, "en") EXCEPT !.readable = FALSE],
       [Document(<<"P", "6", "6", "6", "6", "6", "6", "_", "r", ".", "d", "o", "c", "x">>, <<Body \o <<" ", "P", "1", "2", "3", "4", "5", "6", " ", "K", "e", "n", "y", "a">>>>, "en") EXCEPT !.readable = FALSE],
       Document(<<"f", ".", "p", "d", "f">>, <<RaisingPage, Body \o <<" ", "P", "1", "2", "3", "4", "5", "6", " ", "K", "e", "n", "y", "a">>>>, "en"),
       Document(<<"t", ".", "d", "o", "c", "x">>, <<Body \o <<" ", "P", "1", "2", "3", "4", "5", "6", " ", "K", "e", "n", "y", "a">>, RaisingPage>>, "en"),
       Document(<<"e", ".", "p", "d", "f">>, <<Body, NoPage, NoPage, RaisingPage>>, "en") >>

Catalog ==
    << Document(<<"a", ".", "d", "o", "c", "x">>, <<Body \o <<" ", "P", "1", "2", "3", "4", "5", "6", " ", "F", "r", "a", "n", "c", "e">>>>, "en"),
       Document(<<"b", ".", "p", "d", "f">>, <<Body \o <<" ", "P", "1", "2", "3", "4", "5", "6">>>>, "en"),
       Document(<<"k", ".", "d", "o", "c", "x">>, <<Body \o <<" ", "i", "n", " ", "K", "e", "n", "y", "a">>>>, "en"),
       Document(<<"k", ".", "d", "o", "c">>, <<Body \o <<" ", "o", "f", " ", "K", "e", "n", "i", "a">>>>, "en"),
       Document(<<"k", "_", "i", "c", "r", "r", ".", "d", "o", "c", "x">>, <<Body \o <<" ", "i", "n", " ", "K", "e", "n", "y", "a">>>>, "en"),
       Document(<<"P", "3", "3", "3", "3", "3", "3", "_", "s", ".", "p", "d", "f">>, <<NoPage>>, "fail"),
       Document(<<"s", ".", "p", "d", "f">>, <<NoPage, NoPage>>, "fail"),
       Document(<<"s", ".", "d", "o", "c", "x">>, <<NoPage>>, "fail"),
       Document(<<"n", ".", "p", "d", "f">>, <<Body \o <<" ", "t", "e", "x", "t", "e">>>>, "fr"),
       Document(<<"w", ".", "p", "d", "f">>, <<Body \o <<" ", "t", "h", "e", " ", "W", "o", "r", "l", "d">>>>, "en"),
       Document(<<"k", ".", "p", "d", "f">>, <<Body \o <<" ", "i", "n", " ", "K", "E", "N", "Y", "A", ".">>>>, "en"),
       Document(<<"l", "a", "t", "e", ".", "p", "d", "f">>, <<Body>> \o [i \in 1..9 |-> NoPage] \o <<<<"K", "e", "n", "y", "a">>>>, "en"),
       Document(<<"u", ".", "d", "o", "c", "x">>, <<Body \o <<" ", "P", "9", "9", "9", "9", "9", "9", " ", "K", "e", "n", "y", "a">>>>, "en"),
       Document(<<"g", ".", "d", "o", "c", "x">>, <<Body \o <<" ", "D", "e", "u", "t", "s", "c", "h", "l", "a", "n", "d">>, <<"K", "e", "n", "y", "a">>>>, "en") >> \o BatchDocs

\* the documents the runs of the whole pipeline draw from
DocIds == 1..(Len(Catalog) - Len(BatchDocs))

\* lower_file.endswith('.docx') or lower_file.endswith('.doc')
IsWordFile(file) == EndsWith(Lower(file), ExtDocx) \/ EndsWith(Lower(file), ExtDoc)

\* lower_file.endswith('.pdf')
IsPdfFile(file) == EndsWith(Lower(file), ExtPdf)

\* the most documents in an input directory
MaxDocs == 2

\* the project-to-country spreadsheet as load_project_country_mapping gives it
SampleMapping ==
    (<<"P", "1", "2", "3", "4", "5", "6">> :> <<"F", "r", "a", "n", "c", "e">>) @@
    (<<"P", "1", "1", "1", "1", "1", "1">> :> <<"K", "e", "n", "y", "a">>) @@
    (<<"P", "2", "2", "2", "2", "2", "2">> :> <<"W", "o", "r", "l", "d">>) @@
    (<<"P", "3", "3", "3", "3", "3", "3">> :> <<"S", "r", "i", " ", "L", "a", "n", "k", "a">>)

\* no spreadsheet, or one without a usable row
NoMapping == [k \in {} |-> <<>>]

\* country_variants.COUNTRY_VARIANTS: standard name -> its variants
COUNTRY_VARIANTS ==
    << [standard |-> <<"K", "e", "n", "y", "a">>, variants |-> <<<<"K", "e", "n", "i", "a">>>>],
       [standard |-> <<"G", "e", "r", "m", "a", "n", "y">>, variants |-> <<<<"D", "e", "u", "t", "s", "c", "h", "l", "a", "n", "d">>>>] >>

\* the document types a run is given ('' for none)
DocumentTypes == {<<>>, <<"i", "c", "r", "r">>}

(***************************************************************************)
(* State.                                                                  *)
(***************************************************************************)
VARIABLES
    pc,               \* where the run is
    word_files,       \* Word documents still to convert
    input_pdfs,       \* PDF files of the input directory still to copy
    country_mapping,  \* project identifier -> country
    document_type,    \* the document type of the run
    fs,               \* the output directory: path -> the document it holds
    successful,       \* process_file results with success
    failed,           \* process_file results without
    copied,           \* PDFs copy_existing_pdfs copied
    placed,           \* document -> the file name its classification chose
    pdf_files,        \* reorganize_output_folder: files still to route
    country_count,    \* reorganize_output_folder: files routed to the country folder
    moves,            \* organize_by_country / _by_document_type: moves still to make
    last,             \* the last file operation
    run,              \* how many times reorganize_output_folder has started
    first_result,     \* the output directory at the end of the first reorganization
    log,              \* the lines logged or printed about consolidated countries,
                      \* about renames and copies that raised, and the banner of
                      \* organize_by_document_type (with the number of the run)
    dirs,             \* the folders below the output directory
    faults,           \* whether Word and the file system fail as they please
    attempts,         \* the attempts the last call of convert_with_word made:
                      \* for each, whether Word wrote the PDF
    skipped,          \* PDFs copy_existing_pdfs could not copy
    base_path,        \* get_unique_filename: the argument
    returned,         \* get_unique_filename: the paths returned so far
    doc,              \* detect_language: the document
    language_suffix,  \* detect_language: the result
    corrected_pid,    \* extract_project_id: the result
    standard_to_variants,  \* extract_country_from_pdf: the variants table loaded
    standard_name,    \* extract_country_from_pdf: the result
    master_data,      \* generate_reports: identifier -> country and document count
    report_data,      \* generate_master_report: identifier -> row of the inventory
    word_list,        \* convert_folder_to_pdf: the list word_files of the thread pool run
    pool,             \* convert_folder_to_pdf: max_workers, batch_size, the i of the
                      \* loop over the batches and the batch submitted
    threads,          \* the calls of process_file the executor has taken up
    df                \* load_project_country_mapping: the rows still to read

vars == <<pc, word_files, input_pdfs, country_mapping, document_type, fs,
          successful, failed, copied, placed, pdf_files, country_count, moves,
          last, run, first_result, log, dirs, faults, attempts, skipped, base_path, returned, doc, language_suffix,
          corrected_pid, standard_to_variants, standard_name,
                   master_data, report_data, word_list, pool, threads, df>>

pipelineVars == <<word_files, input_pdfs, country_mapping, document_type,
                  successful, failed, copied, placed, pdf_files, country_count,
                  moves, run, first_result, log, dirs, faults, attempts, skipped>>

unitVars == <<base_path, returned, doc, language_suffix, corrected_pid,
              standard_to_variants, standard_name,
                   master_data, report_data, word_list, pool, threads, df>>

NoFile == MkPath(RootDir, <<>>)

NoOp == [op |-> "none", src |-> NoFile, dst |-> NoFile, existed |-> FALSE,
         content |-> 0, rename_failed |-> FALSE]

\* one file operation: what was written where, whether the destination was
\* there already, and whether an os.rename before it was refused because its
\* destination was there
FileOp(op, src, dst, files, content) ==
    [op |-> op, src |-> src, dst |-> dst, existed |-> Exists(files, dst),
     content |-> content, rename_failed |-> FALSE]

NoDoc == [file |-> <<>>, pages |-> <<>>, readable |-> TRUE, lang |-> "en"]

\* no thread pool at work
NoPool == [max_workers |-> 0, batch_size |-> 0, i |-> 0, batch |-> <<>>]

PoolIdle ==
    /\ word_list = <<>>
    /\ pool = NoPool
    /\ threads = <<>>

UnitInit ==
    /\ base_path = NoFile
    /\ returned = <<>>
    /\ doc = NoDoc
    /\ language_suffix = <<>>
    /\ corrected_pid = <<>>
    /\ standard_to_variants = <<>>
    /\ standard_name = <<>>
    /\ master_data = <<>>
    /\ report_data = <<>>
    /\ PoolIdle
    /\ df = <<>>

\* convert_folder_to_pdf starts on an empty output directory
InitPipeline ==
    /\ pc = "classify"
    /\ \E docs \in SUBSET DocIds :
          /\ Cardinality(docs) <= MaxDocs
          /\ word_files = {d \in docs : IsWordFile(Catalog[d].file)}
          /\ input_pdfs = {d \in docs : IsPdfFile(Catalog[d].file)}
    /\ country_mapping \in {NoMapping, SampleMapping}
    /\ document_type \in DocumentTypes
    /\ fs = [p \in {} |-> 0]
    /\ successful = 0 /\ failed = 0 /\ copied = 0
    /\ placed = [d \in {} |-> <<>>]
    /\ pdf_files = {}
    /\ country_count = 0
    /\ moves = {}
    /\ log = {}
    /\ dirs = UNION {{SubSeq(p.dir, 1, n) : n \in 1..Len(p.dir)} : p \in DOMAIN fs}
    /\ faults = FALSE
    /\ attempts = <<>>
    /\ skipped = 0
    /\ last = NoOp
    /\ run = 0
    /\ first_result = [p \in {} |-> 0]
    /\ UnitInit

(***************************************************************************)
(* word_to_pdf.py: classification of one document.                         *)
(***************************************************************************)
Underscore == <<"_">>

\* the mutant: the country of the mapping is left out
PidBaseWithoutCountry(project_id, mapping, language) ==
    project_id \o Underscore \o language

\* f"{project_id}_{country}_{language_suffix}" or f"{project_id}_{language_suffix}"
PidBase(project_id, mapping, language) ==
    LET country == IF project_id \in DOMAIN mapping
                   THEN ReplaceChar(mapping[project_id], " ", Underscore)
                   ELSE <<>>
    IN  IF country # <<>>
        THEN project_id \o Underscore \o country \o Underscore \o language
        ELSE project_id \o Underscore \o language

\* the mutant: the language tag is left out
CountryBaseWithoutLanguage(country, language) == CountryPrefix \o country

\* f"COUNTRY_{country}_{language_suffix}"
CountryBase(country, language) == CountryPrefix \o country \o Underscore \o language

\* the mutant: every unknown document is tagged UNK
UnknownBaseUntagged(language) == UnknownPrefix \o LangUNK

\* f"UNKNOWN_{language_suffix}"
UnknownBase(language) == UnknownPrefix \o language

\* the mutant: the scanned-document branch is left out
process_file_without_scan_branch(d, mapping, sorted_countries) ==
    LET content_id == extract_project_id(d)
        project_id == IF content_id # <<>> THEN content_id
                      ELSE extract_project_id_from_filename(d.file)
        language == detect_language(d)
    IN  IF project_id # <<>>
        THEN [base |-> project_id \o <<"_">> \o language, how |-> "rename"]
        ELSE [base |-> UnknownPrefix \o language, how |-> "rename"]

\* process_file, after the conversion: the name it wants for the converted
\* PDF and whether it renames the PDF to it or copies it
process_file(d, mapping, sorted_countries) ==
    LET content_id == extract_project_id(d)
        project_id == IF content_id # <<>> THEN content_id
                      ELSE extract_project_id_from_filename(d.file)
        language == detect_language(d)
        country == IF DOMAIN mapping # {}
                   THEN extract_country_from_pdf(d, extract_unique_countries(mapping),
                            sorted_countries, VariantDict(COUNTRY_VARIANTS, 1, EmptyDict))
                   ELSE <<>>
    IN  IF project_id # <<>>
        THEN [base |-> PidBase(project_id, mapping, language), how |-> "rename"]
        ELSE IF language = LangOCR
        THEN [base |-> ScanOcrDocument, how |-> "rename"]
        ELSE IF country # <<>>
        THEN [base |-> CountryBase(country, language), how |-> "copy"]
        ELSE [base |-> UnknownBase(language), how |-> "rename"]

\* copy_existing_pdfs, for one PDF: the name it wants for the copy
copy_existing_pdfs(d, mapping, sorted_countries) ==
    LET content_id == extract_project_id(d)
        project_id == IF content_id # <<>> THEN content_id
                      ELSE extract_project_id_from_filename(d.file)
        language == detect_language(d)
        unique_countries == IF DOMAIN mapping # {}
                            THEN extract_unique_countries(mapping) ELSE {}
        country == IF unique_countries # {}
                   THEN extract_country_from_pdf(d, unique_countries,
                            sorted_countries, EmptyDict)
                   ELSE <<>>
    IN  IF project_id # <<>> THEN PidBase(project_id, mapping, language)
        ELSE IF language = LangOCR THEN ScanOcrDocument
        ELSE IF country # <<>> THEN CountryBase(country, language)
        ELSE UnknownBase(language)

\* retries=2 of the call of convert_with_word
Retries == 2

\* a single attempt
convert_with_word_once(raises, attempt) == <<~raises[attempt]>>

RECURSIVE convert_with_word(_, _)
\* convert_with_word from attempt on (counted from 1): raises[i] tells whether
\* Word raises on attempt i.  The result: the attempts made, TRUE for the one
\* that wrote the PDF; the call raises when the last of them is FALSE.
convert_with_word(raises, attempt) ==
    IF ~raises[attempt] THEN <<TRUE>>
    ELSE IF attempt - 1 < Retries THEN <<FALSE>> \o convert_with_word(raises, attempt + 1)
    ELSE <<FALSE>>

\* success only once the PDF has its name
process_file_success_if_named(converted, oserror) == converted /\ ~oserror

\* the success flag of the tuple process_file returns: the conversion went
\* through, whatever became of the rename or copy after it
process_file_success(converted, oserror) == converted

\* one Word document goes through process_file: Word converts it, at once
\* or after failed attempts, or fails on every attempt; the rename or copy
\* that gives the PDF its name goes through or raises
ProcessFile(d) ==
    /\ pc = "classify"
    /\ d \in word_files
    /\ word_files' = word_files \ {d}
    /\ \E raises \in IF faults THEN [1..(Retries + 1) -> BOOLEAN]
                      ELSE {[i \in 1..(Retries + 1) |-> FALSE],
                            [i \in 1..(Retries + 1) |-> TRUE]} :
       \E oserror \in IF faults THEN BOOLEAN ELSE {FALSE} :
       \E sorted_countries \in SortedCountries(extract_unique_countries(country_mapping)) :
          LET made == convert_with_word(raises, 1)
              converted == made[Len(made)]
              output_path == get_unique_filename(fs,
                                 MkPath(RootDir, Stem(Catalog[d].file) \o ExtPdf))
              pdf == WriteFile(fs, output_path, d)
              target == process_file(Catalog[d], country_mapping, sorted_countries)
              name == ResolveName(pdf, RootDir, target.base, ExtPdf)
              dst == MkPath(RootDir, name)
          IN  /\ attempts' = made
              /\ IF process_file_success(converted, oserror)
                 THEN successful' = successful + 1 /\ failed' = failed
                 ELSE failed' = failed + 1 /\ successful' = successful
              /\ IF converted /\ ~oserror
                 THEN /\ fs' = IF target.how = "rename"
                               THEN MoveFile(pdf, output_path, dst)
                               ELSE CopyFile(pdf, output_path, dst)
                      /\ placed' = placed @@ (d :> name)
                      /\ last' = FileOp("process_file", output_path, dst, pdf, d)
                      /\ UNCHANGED log
                 ELSE IF converted
                 THEN /\ fs' = pdf
                      /\ log' = log \cup {[event |-> IF target.how = "rename"
                                                      THEN "Error renaming"
                                                      ELSE "Error copying",
                                            subject |-> Catalog[d].file,
                                            detail |-> {}]}
                      /\ UNCHANGED <<placed, last>>
                 ELSE UNCHANGED <<fs, placed, last, log>>
    /\ UNCHANGED <<pc, input_pdfs, country_mapping, document_type, copied,
                   pdf_files, country_count, moves, run, first_result>>
    /\ UNCHANGED unitVars
    /\ UNCHANGED <<dirs, faults, skipped>>

\* one PDF of the input directory goes through the loop of copy_existing_pdfs,
\* once the Word documents are done
CopyExistingPdf(d) ==
    /\ pc = "classify"
    /\ word_files = {}
    /\ d \in input_pdfs
    /\ input_pdfs' = input_pdfs \ {d}
    /\ \E sorted_countries \in SortedCountries(extract_unique_countries(country_mapping)) :
          LET base == copy_existing_pdfs(Catalog[d], country_mapping, sorted_countries)
              name == ResolveName(fs, RootDir, base, ExtPdf)
              dst == MkPath(RootDir, name)
          IN  \E oserror \in IF faults THEN BOOLEAN ELSE {FALSE} :
                 IF ~oserror
                 THEN /\ fs' = WriteFile(fs, dst, d)
                      /\ copied' = copied + 1
                      /\ placed' = placed @@ (d :> name)
                      /\ last' = FileOp("copy_existing_pdfs", NoFile, dst, fs, d)
                      /\ UNCHANGED <<skipped, log>>
                 ELSE /\ skipped' = skipped + 1
                      /\ log' = log \cup {[event |-> "Error copying",
                                            subject |-> Catalog[d].file,
                                            detail |-> {}]}
                      /\ UNCHANGED <<fs, copied, placed, last>>
    /\ UNCHANGED <<pc, word_files, country_mapping, document_type, successful,
                   failed, pdf_files, country_count, moves, run, first_result>>
    /\ UNCHANGED unitVars
    /\ UNCHANGED <<dirs, faults, attempts>>

(***************************************************************************)
(* reorganize_output.py.  os.rename is the one of Windows, the platform    *)
(* the converter requires: it raises when the destination exists.          *)
(***************************************************************************)
\* how many times reorganize_output_folder is run on an output directory
MaxRuns == 2

CategoryFolders == {country_folder, unknown_folder, failed_folder}

\* the os.walk of reorganize_output_folder: every PDF below the output
\* directory except those directly in one of the three category folders
WalkPdfFiles(files) ==
    {p \in DOMAIN files : p.dir \notin CategoryFolders /\ IsPdfFile(p.name)}

\* reorganize_output_folder lists the files to route; the pipeline calls it
\* once at its end, and it can be run again on the same folder
StartReorganize ==
    /\ \/ pc = "classify" /\ word_files = {} /\ input_pdfs = {}
       \/ pc = "done" /\ run < MaxRuns
    /\ pc' = "route"
    /\ run' = run + 1
    /\ pdf_files' = WalkPdfFiles(fs)
    /\ country_count' = 0
    /\ UNCHANGED <<word_files, input_pdfs, country_mapping, document_type, fs,
                   successful, failed, copied, placed, moves, last, first_result>>
    /\ UNCHANGED unitVars
    /\ dirs' = dirs \cup {country_folder, unknown_folder, failed_folder}
    /\ UNCHANGED <<log, faults, attempts, skipped>>

\* one iteration of "for pdf_file in pdf_files": the document type goes into
\* the name, then the file is moved into its category folder
ReorganizeFile(pdf_file) ==
    /\ pc = "route"
    /\ pdf_file \in pdf_files
    /\ pdf_files' = pdf_files \ {pdf_file}
    /\ LET new_filename == AddDocumentType(pdf_file.name, document_type)
           temp_path == MkPath(pdf_file.dir, new_filename)
           renames == document_type # <<>> /\ ~Exists(fs, temp_path)
           renamed == IF renames THEN MoveFile(fs, pdf_file, temp_path) ELSE fs
           source == IF renames THEN temp_path ELSE pdf_file
           filename == source.name
           target_folder == TargetFolder(filename)
           dest_path == MkPath(target_folder, ResolveFilename(renamed, target_folder, filename))
       IN  /\ fs' = MoveFile(renamed, source, dest_path)
           /\ country_count' = IF target_folder = country_folder
                               THEN country_count + 1 ELSE country_count
           /\ last' = [FileOp("reorganize_output_folder", source, dest_path, renamed,
                               fs[pdf_file])
                           EXCEPT !.rename_failed = document_type # <<>> /\ ~renames]
    /\ UNCHANGED <<pc, word_files, input_pdfs, country_mapping, document_type,
                   successful, failed, copied, placed, moves, run, first_result>>
    /\ UNCHANGED unitVars
    /\ UNCHANGED <<log, dirs, faults, attempts, skipped>>

\* the end of a run of reorganize_output_folder
Finish ==
    /\ pc' = "done"
    /\ first_result' = IF run = 1 THEN fs ELSE first_result

\* os.listdir: the PDF files directly in a folder
ListPdfFiles(files, dir) == {p \in DOMAIN files : p.dir = dir /\ IsPdfFile(p.name)}

\* the folder organize_by_country moves a file of the country folder to
CountrySubfolder(filename) ==
    country_folder \o <<safe_folder_name(standardize_country_name(CountryOfFilename(filename)))>>

\* the routing loop is over: organize_by_country makes its first pass, or is
\* not called at all
OrganizeByCountry ==
    /\ pc = "route"
    /\ pdf_files = {}
    /\ LET country_docs == {p \in ListPdfFiles(fs, country_folder) :
                               CountryOfFilename(p.name) # <<>>}
           \* country_docs[standard_country]['original_names']
           original_names(standard_country) ==
               {CountryOfFilename(p.name) : p \in
                   {q \in country_docs :
                       standardize_country_name(CountryOfFilename(q.name)) = standard_country}}
           standard_countries ==
               {standardize_country_name(CountryOfFilename(p.name)) : p \in country_docs}
       IN  IF country_count > 0 /\ country_docs # {}
           THEN /\ pc' = "by_country"
                /\ moves' = {[src |-> p, dir |-> CountrySubfolder(p.name)] : p \in country_docs}
                /\ log' = log \cup
                      {[event |-> "Consolidated country variants", subject |-> c,
                        detail |-> original_names(c)] :
                          c \in {k \in standard_countries :
                                    Cardinality(original_names(k)) > 1}}
                /\ UNCHANGED first_result
           ELSE /\ Finish
                /\ UNCHANGED <<moves, log>>
    /\ UNCHANGED <<word_files, input_pdfs, country_mapping, document_type, fs,
                   successful, failed, copied, placed, pdf_files, country_count,
                   last, run>>
    /\ UNCHANGED unitVars
    /\ UNCHANGED <<dirs, faults, attempts, skipped>>

\* a move into a folder under the name the probe finds free there
MoveInto(op, m) ==
    LET dest_path == MkPath(m.dir, ResolveFilename(fs, m.dir, m.src.name))
    IN  /\ fs' = MoveFile(fs, m.src, dest_path)
        /\ last' = FileOp(op, m.src, dest_path, fs, fs[m.src])
        /\ moves' = moves \ {m}
        /\ dirs' = dirs \cup {m.dir}

\* organize_by_country moves one file into its country's folder
MoveToCountryFolder(m) ==
    /\ pc = "by_country"
    /\ m \in moves
    /\ MoveInto("organize_by_country", m)
    /\ UNCHANGED <<pc, word_files, input_pdfs, country_mapping, document_type,
                   successful, failed, copied, placed, pdf_files, country_count,
                   run, first_result>>
    /\ UNCHANGED unitVars
    /\ UNCHANGED <<log, faults, attempts, skipped>>

\* the country subfolders: the directories directly under the country folder
CountrySubfolders(files) ==
    {SubSeq(p.dir, 1, 2) : p \in {q \in DOMAIN files :
                                     Len(q.dir) >= 2 /\ q.dir[1] = CountryFolderName}}

\* a file without a type counts as a type of its own
CountryDocTypesAndNone(files, country_subfolder) ==
    {DocTypeOfFilename(p.name) : p \in ListPdfFiles(files, country_subfolder)}

\* country_doc_types of one country subfolder: the document types of its files
CountryDocTypes(files, country_subfolder) ==
    {DocTypeOfFilename(p.name) : p \in ListPdfFiles(files, country_subfolder)} \ {<<>>}

\* organize_by_document_type makes its first pass over every country subfolder
OrganizeByDocumentType ==
    /\ pc = "by_country"
    /\ moves = {}
    /\ LET typed == {p \in DOMAIN fs :
                        /\ p.dir \in CountrySubfolders(fs)
                        /\ IsPdfFile(p.name)
                        /\ DocTypeOfFilename(p.name) # <<>>
                        /\ Cardinality(CountryDocTypes(fs, p.dir)) > 1}
       IN  IF typed # {}
           THEN /\ pc' = "by_type"
                /\ moves' = {[src |-> p, dir |-> p.dir \o <<Upper(DocTypeOfFilename(p.name))>>] :
                                p \in typed}
                /\ UNCHANGED first_result
           ELSE /\ Finish
                /\ UNCHANGED moves
    /\ UNCHANGED <<word_files, input_pdfs, country_mapping, document_type, fs,
                   successful, failed, copied, placed, pdf_files, country_count,
                   last, run>>
    /\ UNCHANGED unitVars
    /\ log' = log \cup {[event |-> "ORGANIZING COUNTRY DOCUMENTS BY TYPE",
                         subject |-> <<>>, detail |-> {run}]}
    /\ UNCHANGED <<dirs, faults, attempts, skipped>>

\* organize_by_document_type moves one file into its document type's folder
MoveToDocTypeFolder(m) ==
    /\ pc = "by_type"
    /\ m \in moves
    /\ MoveInto("organize_by_document_type", m)
    /\ UNCHANGED <<pc, word_files, input_pdfs, country_mapping, document_type,
                   successful, failed, copied, placed, pdf_files, country_count,
                   run, first_result>>
    /\ UNCHANGED unitVars
    /\ UNCHANGED <<log, faults, attempts, skipped>>

\* organize_by_document_type returns, and with it the run
ReorganizeDone ==
    /\ pc = "by_type"
    /\ moves = {}
    /\ Finish
    /\ UNCHANGED <<word_files, input_pdfs, country_mapping, document_type, fs,
                   successful, failed, copied, placed, pdf_files, country_count,
                   moves, last, run>>
    /\ UNCHANGED unitVars
    /\ UNCHANGED <<log, dirs, faults, attempts, skipped>>

(***************************************************************************)
(* reorganize_output.py run on its own, on a folder that holds PDFs        *)
(* already.                                                                *)
(***************************************************************************)
SubDir == <<<<"s", "u", "b">>>>

KenyaDir == country_folder \o <<<<"K", "e", "n", "y", "a">>>>

\* the files such a folder can hold
SampleFiles ==
    << MkPath(RootDir, <<"k", ".", "p", "d", "f">>),
       MkPath(RootDir, <<"k", "_", "i", "c", "r", "r", ".", "p", "d", "f">>),
       MkPath(RootDir, <<"C", "O", "U", "N", "T", "R", "Y", "_", "K", "e", "n", "y", "a", "_", "E", "N", ".", "p", "d", "f">>),
       MkPath(RootDir, <<"C", "O", "U", "N", "T", "R", "Y", "_", "C", "o", "t", "e", "_", "d", "_", "I", "v", "o", "i", "r", "e", "_", "E", "N", ".", "p", "d", "f">>),
       MkPath(RootDir, <<"C", "O", "U", "N", "T", "R", "Y", "_", "C", "o", "t", "e", " ", "d", "_", "i", "v", "o", "i", "r", "e", "_", "E", "N", ".", "p", "d", "f">>),
       MkPath(RootDir, <<"P", "1", "1", "1", "1", "1", "1", "_", "K", "e", "n", "y", "a", "_", "E", "N", "_", "p", "a", "d", ".", "p", "d", "f">>),
       MkPath(RootDir, <<"P", "9", "9", "9", "9", "9", "9", "_", "E", "N", ".", "p", "d", "f">>),
       MkPath(RootDir, <<"P", "1", "2", "3", "4", "5", "_", "x", ".", "p", "d", "f">>),
       MkPath(RootDir, <<"C", "O", "U", "N", "T", "R", "Y", "S", "I", "D", "E", ".", "p", "d", "f">>),
       MkPath(RootDir, <<"U", "N", "K", "N", "O", "W", "N", "_", "E", "N", ".", "p", "d", "f">>),
       MkPath(RootDir, <<"U", "N", "K", "N", "O", "W", "N", ".", "p", "d", "f">>),
       MkPath(RootDir, <<"u", "n", "k", "n", "o", "w", "n", "_", "E", "N", ".", "p", "d", "f">>),
       MkPath(SubDir, <<"U", "N", "K", "N", "O", "W", "N", "_", "E", "N", ".", "p", "d", "f">>),
       MkPath(country_folder, <<"C", "O", "U", "N", "T", "R", "Y", "_", "K", "e", "n", "y", "a", "_", "E", "N", "_", "i", "c", "r", "r", ".", "p", "d", "f">>),
       MkPath(KenyaDir, <<"C", "O", "U", "N", "T", "R", "Y", "_", "K", "e", "n", "y", "a", "_", "E", "N", "_", "i", "c", "r", "r", ".", "p", "d", "f">>),
       MkPath(unknown_folder, <<"U", "N", "K", "N", "O", "W", "N", "_", "E", "N", ".", "p", "d", "f">>) >>

\* the most files in such a folder
MaxFiles == 2

\* what a sample file holds: not a document of the catalog
SampleContent(i) == 100 + i

InitStandalone ==
    /\ pc = "classify"
    /\ word_files = {}
    /\ input_pdfs = {}
    /\ country_mapping = NoMapping
    /\ document_type \in DocumentTypes
    /\ \E chosen \in SUBSET (1..Len(SampleFiles)) :
          /\ chosen # {}
          /\ Cardinality(chosen) <= MaxFiles
          /\ fs = [p \in {SampleFiles[i] : i \in chosen} |->
                      SampleContent(CHOOSE i \in chosen : SampleFiles[i] = p)]
    /\ successful = 0 /\ failed = 0 /\ copied = 0
    /\ placed = [d \in {} |-> <<>>]
    /\ pdf_files = {}
    /\ country_count = 0
    /\ moves = {}
    /\ log = {}
    /\ dirs = UNION {{SubSeq(p.dir, 1, n) : n \in 1..Len(p.dir)} : p \in DOMAIN fs}
    /\ faults = FALSE
    /\ attempts = <<>>
    /\ skipped = 0
    /\ last = NoOp
    /\ run = 0
    /\ first_result = [p \in {} |-> 0]
    /\ UnitInit

Init == InitPipeline \/ InitStandalone

Next ==
    \/ \E d \in DocIds : ProcessFile(d)
    \/ \E d \in DocIds : CopyExistingPdf(d)
    \/ StartReorganize
    \/ \E pdf_file \in DOMAIN fs : ReorganizeFile(pdf_file)
    \/ OrganizeByCountry
    \/ \E m \in moves : MoveToCountryFolder(m)
    \/ OrganizeByDocumentType
    \/ \E m \in moves : MoveToDocTypeFolder(m)
    \/ ReorganizeDone

Spec == Init /\ [][Next]_vars

(***************************************************************************)
(* get_unique_filename on its own: a sequence of calls, each returned path *)
(* created before the next call.                                           *)
(***************************************************************************)
\* the most calls in a sequence
MaxCalls == 3

\* the highest suffix a directory holds before the calls
MaxTaken == 99

\* f"x_{counter:02d}.pdf"
Suffixed(counter) == MkPath(RootDir, <<"x", "_">> \o Format02d(counter) \o ExtPdf)

InitResolve ==
    /\ pc = "resolve"
    \* the names x_01 .. x_n taken, with or without x.pdf, x_02 taken but not
    \* x_01, and a name without extension
    /\ \E taken \in
          {{Suffixed(i) : i \in 1..n} \cup {MkPath(RootDir, <<"x", ".", "p", "d", "f">>)} :
          n \in {0, 1, 2, MaxTaken - 1, MaxTaken}}
          \cup {{Suffixed(1)}, {MkPath(RootDir, <<"x", ".", "p", "d", "f">>), Suffixed(2)},
          {MkPath(RootDir, <<"x">>), MkPath(SubDir, <<"x", ".", "p", "d", "f">>)}} :
          fs = [p \in taken |-> 0]
    /\ word_files = {} /\ input_pdfs = {}
    /\ country_mapping = NoMapping
    /\ document_type = <<>>
    /\ successful = 0 /\ failed = 0 /\ copied = 0
    /\ placed = [d \in {} |-> <<>>]
    /\ pdf_files = {}
    /\ country_count = 0
    /\ moves = {}
    /\ log = {}
    /\ dirs = UNION {{SubSeq(p.dir, 1, n) : n \in 1..Len(p.dir)} : p \in DOMAIN fs}
    /\ faults = FALSE
    /\ attempts = <<>>
    /\ skipped = 0
    /\ last = NoOp
    /\ run = 0
    /\ first_result = [p \in {} |-> 0]
    /\ UnitInit

\* one call of get_unique_filename, and the caller creating the path it got
Resolve(path) ==
    /\ pc = "resolve"
    /\ Len(returned) < MaxCalls
    /\ LET new_path == get_unique_filename(fs, path)
       IN  /\ base_path' = path
           /\ returned' = Append(returned, [base_path |-> path,
                                            existed |-> Exists(fs, path),
                                            path |-> new_path])
           /\ last' = FileOp("get_unique_filename", path, new_path, fs, Len(returned) + 1)
           /\ fs' = WriteFile(fs, new_path, Len(returned) + 1)
    /\ UNCHANGED <<pc, doc, language_suffix, corrected_pid, standard_to_variants,
                   standard_name,
                   master_data, report_data, word_list, pool, threads, df>>
    /\ UNCHANGED pipelineVars

\* the paths get_unique_filename is called on
SpecResolve ==
    InitResolve /\
    [][\E path \in {MkPath(RootDir, <<"x", ".", "p", "d", "f">>), Suffixed(1),
                    MkPath(RootDir, <<"x">>),
                    MkPath(SubDir, <<"x", ".", "p", "d", "f">>)} : Resolve(path)]_vars

(***************************************************************************)
(* detect_language on its own, on documents put together from a table of   *)
(* page texts.                                                             *)
(***************************************************************************)
\* the most pages of such a document
MaxPages == 4

Spaces(n) == [i \in 1..n |-> " "]

InitLang ==
    /\ pc = "detect"
    \* what extract_text() can give for a page, what detect() can answer
    /\ \E n \in 0..MaxPages :
       \E pages \in [1..n -> {NoPage, Fill(30), Fill(49), Fill(50),
                              Fill(48) \o Spaces(5), Spaces(60), Fill(101)}] :
       \E lang \in {"en", "fr", "fail"} : \E readable \in BOOLEAN :
          doc = [file |-> <<"d", ".", "p", "d", "f">>, pages |-> pages, readable |-> readable,
                 lang |-> lang]
    /\ language_suffix = <<>>
    /\ base_path = NoFile
    /\ returned = <<>>
    /\ fs = [p \in {} |-> 0]
    /\ word_files = {} /\ input_pdfs = {}
    /\ country_mapping = NoMapping
    /\ document_type = <<>>
    /\ successful = 0 /\ failed = 0 /\ copied = 0
    /\ placed = [d \in {} |-> <<>>]
    /\ pdf_files = {}
    /\ country_count = 0
    /\ moves = {}
    /\ log = {}
    /\ dirs = UNION {{SubSeq(p.dir, 1, n) : n \in 1..Len(p.dir)} : p \in DOMAIN fs}
    /\ faults = FALSE
    /\ attempts = <<>>
    /\ skipped = 0
    /\ last = NoOp
    /\ run = 0
    /\ first_result = [p \in {} |-> 0]
    /\ corrected_pid = <<>>
    /\ standard_to_variants = <<>>
    /\ standard_name = <<>>
    /\ master_data = <<>>
    /\ report_data = <<>>
    /\ PoolIdle
    /\ df = <<>>

\* one call of detect_language
DetectLanguage ==
    /\ pc = "detect"
    /\ pc' = "detected"
    /\ language_suffix' = detect_language(doc)
    /\ UNCHANGED <<doc, base_path, returned, fs, last, corrected_pid,
                   standard_to_variants, standard_name,
                   master_data, report_data, word_list, pool, threads, df>>
    /\ UNCHANGED pipelineVars

SpecLang == InitLang /\ [][DetectLanguage]_vars

(***************************************************************************)
(* extract_project_id on its own, on documents put together from a table   *)
(* of page texts, after a number of pages without text.                    *)
(***************************************************************************)
\* the most pages with text of such a document
MaxPidPages == 2

InitPid ==
    /\ pc = "extract"
    /\ LET \* what extract_text() can give for a page
           PidPageTexts ==
               {NoPage,
                <<"n", "o", " ", "P", "1", "2", "O", "4", "5", "6", ".">>,
                <<"P", "O", "O", "O", "O", "O", "O">>,
                <<"P", "1", "2", "3", "4", "5", " ", "P", "6", "5", "4", "3", "2", "1", "0">>,
                <<"P", "P", "1", "O", "3", "4", "5", "6", "P", "9", "9", "9", "9", "9", "9">>,
                <<"p", "1", "2", "3", "4", "5", "6", " ", "P", "1", "2", "o", "4", "5", "6">>,
                <<"P", "1", "2", "3", "4", "5", "Q">>,
                <<"O", "P", "7", "7", "7", "7", "7", "7", "_", "P", "8", "8", "8", "8", "8", "O">>}
           \* how many pages without text come first: none, or so many that
           \* the page after them is the last one searched or the first one
           \* that is not
           LeadingPages == {0, MaxSearchPages - 1, MaxSearchPages}
       IN  \E lead \in LeadingPages : \E n \in 0..MaxPidPages :
           \E pages \in [1..n -> PidPageTexts] : \E readable \in BOOLEAN :
              doc = [file |-> <<"d", ".", "p", "d", "f">>,
                     pages |-> [i \in 1..lead |-> NoPage] \o pages,
                     readable |-> readable, lang |-> "en"]
    /\ fs = [p \in {} |-> 0]
    /\ word_files = {} /\ input_pdfs = {}
    /\ country_mapping = NoMapping
    /\ document_type = <<>>
    /\ successful = 0 /\ failed = 0 /\ copied = 0
    /\ placed = [d \in {} |-> <<>>]
    /\ pdf_files = {}
    /\ country_count = 0
    /\ moves = {}
    /\ log = {}
    /\ dirs = UNION {{SubSeq(p.dir, 1, n) : n \in 1..Len(p.dir)} : p \in DOMAIN fs}
    /\ faults = FALSE
    /\ attempts = <<>>
    /\ skipped = 0
    /\ last = NoOp
    /\ run = 0
    /\ first_result = [p \in {} |-> 0]
    /\ base_path = NoFile
    /\ returned = <<>>
    /\ language_suffix = <<>>
    /\ corrected_pid = <<>>
    /\ standard_to_variants = <<>>
    /\ standard_name = <<>>
    /\ master_data = <<>>
    /\ report_data = <<>>
    /\ PoolIdle
    /\ df = <<>>

\* one call of extract_project_id
ExtractProjectId ==
    /\ pc = "extract"
    /\ pc' = "extracted"
    /\ corrected_pid' = extract_project_id(doc)
    /\ UNCHANGED <<doc, base_path, returned, language_suffix, fs, last,
                   standard_to_variants, standard_name,
                   master_data, report_data, word_list, pool, threads, df>>
    /\ UNCHANGED pipelineVars

SpecPid == InitPid /\ [][ExtractProjectId]_vars

(***************************************************************************)
(* extract_country_from_pdf on its own, as process_file calls it: the      *)
(* countries of a mapping, a variants table, and documents put together    *)
(* from a table of page texts.                                             *)
(***************************************************************************)
\* the most rows of the mapping
MaxRows == 2

\* the most pages of such a document
MaxCountryPages == 2

InitCountry ==
    /\ pc = "match"
    /\ LET India == <<"I", "n", "d", "i", "a">>
           BritishIndia == <<"B", "r", "i", "t", "i", "s", "h", " ", "I", "n", "d", "i", "a">>
           \* the countries the rows of the mapping can name
           CountryNames ==
               {India, BritishIndia, <<"C", "h", "a", "d">>,
                <<"B", "r", "i", "t", "i", "s", "h", "_", "I", "n", "d", "i", "a">>}
           \* the variants tables: none, a variant of its own, and a table
           \* that lists one country of the mapping as a variant of another
           VariantTables ==
               {<<>>,
                <<[standard |-> India, variants |-> <<<<"B", "h", "a", "r", "a", "t">>>>]>>,
                <<[standard |-> India, variants |-> <<BritishIndia>>]>>}
           \* what extract_text() can give for a page
           CountryPageTexts ==
               {NoPage, India, BritishIndia,
                <<"i", "n", " ", "b", "r", "i", "t", "i", "s", "h", " ", "i", "n", "d", "i", "a", ".">>,
                BritishIndia \o <<"n">>,
                <<"C", "h", "a", "d", ",", " ">> \o BritishIndia,
                <<"B", "h", "a", "r", "a", "t">>}
       IN  /\ \E n \in 0..MaxCountryPages : \E pages \in [1..n -> CountryPageTexts] :
                 doc = [file |-> <<"d", ".", "p", "d", "f">>, pages |-> pages,
                        readable |-> TRUE, lang |-> "en"]
           /\ \E n \in 1..MaxRows : country_mapping \in [1..n -> CountryNames]
           /\ standard_to_variants \in VariantTables
    /\ standard_name = <<>>
    /\ master_data = <<>>
    /\ report_data = <<>>
    /\ PoolIdle
    /\ df = <<>>
    /\ corrected_pid = <<>>
    /\ fs = [p \in {} |-> 0]
    /\ word_files = {} /\ input_pdfs = {}
    /\ document_type = <<>>
    /\ successful = 0 /\ failed = 0 /\ copied = 0
    /\ placed = [d \in {} |-> <<>>]
    /\ pdf_files = {}
    /\ country_count = 0
    /\ moves = {}
    /\ log = {}
    /\ dirs = UNION {{SubSeq(p.dir, 1, n) : n \in 1..Len(p.dir)} : p \in DOMAIN fs}
    /\ faults = FALSE
    /\ attempts = <<>>
    /\ skipped = 0
    /\ last = NoOp
    /\ run = 0
    /\ first_result = [p \in {} |-> 0]
    /\ base_path = NoFile
    /\ returned = <<>>
    /\ language_suffix = <<>>

\* one call of extract_country_from_pdf, with the dictionary process_file
\* makes of the variants table
ExtractCountry ==
    /\ pc = "match"
    /\ pc' = "matched"
    /\ LET unique_countries == extract_unique_countries(country_mapping)
       IN  \E sorted_countries \in SortedCountries(unique_countries) :
              standard_name' =
                  extract_country_from_pdf(doc, unique_countries, sorted_countries,
                      VariantDict(standard_to_variants, 1, EmptyDict))
    /\ UNCHANGED <<doc, base_path, returned, language_suffix, fs, last,
                   corrected_pid, standard_to_variants, master_data, report_data, word_list, pool, threads, df>>
    /\ UNCHANGED pipelineVars

SpecCountry == InitCountry /\ [][ExtractCountry]_vars

(***************************************************************************)
(* reorganize_output.py run on its own on an output folder of country      *)
(* documents: spellings of one country, document types, and a file in a    *)
(* document-type subfolder made before.                                    *)
(***************************************************************************)
ReorganizeSamples ==
    << MkPath(RootDir, <<"C", "O", "U", "N", "T", "R", "Y", "_", "C", "o", "t", "e", "_", "d", "_", "I", "v", "o", "i", "r", "e", "_", "E", "N", ".", "p", "d", "f">>),
       MkPath(RootDir, <<"C", "O", "U", "N", "T", "R", "Y", "_", "C", "o", "t", "e", " ", "d", "'", "I", "v", "o", "i", "r", "e", "_", "E", "N", ".", "p", "d", "f">>),
       MkPath(RootDir, <<"C", "O", "U", "N", "T", "R", "Y", "_", "C", "o", "t", "e", " ", "d", " ", "I", "v", "o", "i", "r", "e", "_", "E", "N", ".", "p", "d", "f">>),
       MkPath(RootDir, <<"C", "O", "U", "N", "T", "R", "Y", "_", "K", "e", "n", "y", "a", "_", "E", "N", "_", "i", "c", "r", "r", ".", "p", "d", "f">>),
       MkPath(RootDir, <<"C", "O", "U", "N", "T", "R", "Y", "_", "K", "e", "n", "y", "a", "_", "E", "N", "_", "p", "a", "d", ".", "p", "d", "f">>),
       MkPath(RootDir, <<"P", "1", "1", "1", "1", "1", "1", "_", "K", "e", "n", "y", "a", "_", "N", "O", "N", "_", "I", "C", "R", "R", ".", "p", "d", "f">>),
       MkPath(RootDir, <<"C", "O", "U", "N", "T", "R", "Y", "_", "K", "e", "n", "y", "a", "_", "E", "N", ".", "p", "d", "f">>),
       MkPath(country_folder, <<"C", "O", "U", "N", "T", "R", "Y", "_", "K", "e", "n", "y", "a", "_", "O", "C", "R", "_", "p", "a", "d", "_", "0", "1", ".", "p", "d", "f">>),
       MkPath(KenyaDir \o <<<<"I", "C", "R", "R">>>>, <<"C", "O", "U", "N", "T", "R", "Y", "_", "K", "e", "n", "y", "a", "_", "E", "N", "_", "i", "c", "r", "r", ".", "p", "d", "f">>) >>

\* the most files in such a folder
MaxPdfs == 3

InitReorganize ==
    /\ pc = "classify"
    /\ word_files = {}
    /\ input_pdfs = {}
    /\ country_mapping = NoMapping
    /\ document_type \in DocumentTypes
    /\ \E chosen \in SUBSET (1..Len(ReorganizeSamples)) :
          /\ chosen # {}
          /\ Cardinality(chosen) <= MaxPdfs
          /\ fs = [p \in {ReorganizeSamples[i] : i \in chosen} |->
                      SampleContent(CHOOSE i \in chosen : ReorganizeSamples[i] = p)]
    /\ successful = 0 /\ failed = 0 /\ copied = 0
    /\ placed = [d \in {} |-> <<>>]
    /\ pdf_files = {}
    /\ country_count = 0
    /\ moves = {}
    /\ log = {}
    /\ dirs = UNION {{SubSeq(p.dir, 1, n) : n \in 1..Len(p.dir)} : p \in DOMAIN fs}
    /\ faults = FALSE
    /\ attempts = <<>>
    /\ skipped = 0
    /\ last = NoOp
    /\ run = 0
    /\ first_result = [p \in {} |-> 0]
    /\ UnitInit

SpecReorganize ==
    InitReorganize /\ [][\/ StartReorganize
                         \/ \E pdf_file \in DOMAIN fs : ReorganizeFile(pdf_file)
                         \/ OrganizeByCountry
                         \/ \E m \in moves : MoveToCountryFolder(m)
                         \/ OrganizeByDocumentType
                         \/ \E m \in moves : MoveToDocTypeFolder(m)
                         \/ ReorganizeDone]_vars

(***************************************************************************)
(* generate_reports: the PDFs of the country folders are scanned in any    *)
(* order, then the master inventory is made.  The columns of the document  *)
(* types are left out.                                                     *)
(***************************************************************************)
\* the most PDFs under the country folders
MaxScanned == 3

\* the state when the scan begins: the portfolio is loaded, and master_data
\* has an entry for each of its identifiers
InitReport ==
    LET Kenya == <<"K", "e", "n", "y", "a">>
        Chad == <<"C", "h", "a", "d">>
        P111111 == <<"P", "1", "1", "1", "1", "1", "1">>
        P222222 == <<"P", "2", "2", "2", "2", "2", "2">>
        Portfolios == {NoMapping, P111111 :> Kenya,
                       (P111111 :> Kenya) @@ (P222222 :> <<"W", "o", "r", "l", "d">>)}
        ChadDir == country_folder \o <<Chad>>
        Files ==
            {MkPath(KenyaDir, P111111 \o <<"_", "K", "e", "n", "y", "a", "_", "E", "N", "_", "p", "a", "d", ".", "p", "d", "f">>),
             MkPath(KenyaDir \o <<<<"I", "C", "R", "R">>>>, P111111 \o <<"_", "K", "e", "n", "y", "a", "_", "E", "N", "_", "i", "c", "r", "r", ".", "p", "d", "f">>),
             MkPath(KenyaDir, <<"P", "3", "3", "3", "3", "3", "3", "_", "E", "N", "_", "p", "a", "d", ".", "P", "D", "F">>),
             MkPath(KenyaDir, <<"C", "O", "U", "N", "T", "R", "Y", "_", "K", "e", "n", "y", "a", "_", "E", "N", "_", "p", "a", "d", ".", "p", "d", "f">>),
             MkPath(KenyaDir, <<"x", "P", "4", "4", "4", "4", "4", "4", "5", ".", "p", "d", "f">>),
             MkPath(ChadDir, P111111 \o <<"_", "C", "h", "a", "d", "_", "E", "N", "_", "p", "a", "d", ".", "p", "d", "f">>),
             MkPath(ChadDir, <<"P", "3", "3", "3", "3", "3", "3", "_", "C", "h", "a", "d", "_", "N", "O", "N", "_", "p", "a", "d", ".", "p", "d", "f">>),
             MkPath(ChadDir, <<"p", "5", "5", "5", "5", "5", "5", "_", "p", "a", "d", ".", "p", "d", "f">>),
             MkPath(country_folder, <<"P", "6", "6", "6", "6", "6", "6", "_", "E", "N", ".", "p", "d", "f">>),
             MkPath(ChadDir, <<"P", "7", "7", "7", "7", "7", "7", ".", "t", "x", "t">>)}
    IN  /\ pc = "scan"
        /\ word_files = {}
        /\ input_pdfs = {}
        /\ country_mapping \in Portfolios
        /\ document_type = <<>>
        /\ \E chosen \in SUBSET Files :
              /\ Cardinality(chosen) <= MaxScanned
              /\ fs = [p \in chosen |-> 0]
        /\ pdf_files = {p \in DOMAIN fs : /\ IsPdfFile(p.name)
                                           /\ Len(p.dir) \in {2, 3}
                                           /\ SubSeq(p.dir, 1, 1) = country_folder}
        /\ master_data = [pid \in DOMAIN country_mapping |->
                             [country |-> country_mapping[pid], count |-> 0]]
        /\ report_data = <<>>
        /\ PoolIdle
        /\ df = <<>>
        /\ successful = 0 /\ failed = 0 /\ copied = 0
        /\ placed = [d \in {} |-> <<>>]
        /\ country_count = 0
        /\ moves = {}
        /\ log = {}
        /\ dirs = UNION {{SubSeq(p.dir, 1, n) : n \in 1..Len(p.dir)} : p \in DOMAIN fs}
        /\ faults = FALSE
        /\ attempts = <<>>
        /\ skipped = 0
        /\ last = NoOp
        /\ run = 0
        /\ first_result = [p \in {} |-> 0]
        /\ base_path = NoFile
        /\ returned = <<>>
        /\ doc = NoDoc
        /\ language_suffix = <<>>
        /\ corrected_pid = <<>>
        /\ standard_to_variants = <<>>
        /\ standard_name = <<>>

\* process_document on one PDF of a country folder or of a subfolder of it
ProcessDocument(pdf_file) ==
    /\ pc = "scan"
    /\ pdf_file \in pdf_files
    /\ pdf_files' = pdf_files \ {pdf_file}
    /\ LET filename == pdf_file.name
           country_name == ReplaceChar(pdf_file.dir[2], "_", <<" ">>)
           starts == {i \in 1..(Len(filename) - 6) :
                         /\ filename[i] = "P"
                         /\ \A j \in (i + 1)..(i + 6) : IsDigit(filename[j])}
           first == CHOOSE i \in starts : \A j \in starts : i <= j
           project_id == SubSeq(filename, first, first + 6)
       IN  master_data' =
              IF starts = {} THEN master_data
              ELSE IF project_id \in DOMAIN master_data
              THEN [master_data EXCEPT ![project_id].count = @ + 1]
              ELSE master_data @@
                   (project_id :> [country |-> country_name, count |-> 1])
    /\ UNCHANGED <<pc, word_files, input_pdfs, country_mapping, document_type, fs,
                   successful, failed, copied, placed, country_count, moves, last,
                   run, first_result, log, dirs, faults, attempts, skipped, report_data,
                   word_list, pool, threads, df>>
    /\ UNCHANGED <<base_path, returned, doc, language_suffix, corrected_pid,
                   standard_to_variants, standard_name>>

\* rows for the identifiers of the portfolio only
generate_master_report_of_portfolio(data, portfolio_mapping) ==
    [pid \in DOMAIN portfolio_mapping |->
        [project_id |-> pid, country |-> portfolio_mapping[pid],
         has_documents |-> "Yes", document_count |-> data[pid].count, note |-> ""]]

\* report_data of generate_master_report: a row for each identifier of the
\* portfolio, then one for each identifier of master_data that the
\* portfolio has not ("" for a cell left empty)
generate_master_report(data, portfolio_mapping) ==
    [pid \in DOMAIN portfolio_mapping |->
        [project_id |-> pid,
         country |-> portfolio_mapping[pid],
         has_documents |-> IF pid \in DOMAIN data THEN "Yes" ELSE "No",
         document_count |-> IF pid \in DOMAIN data THEN data[pid].count ELSE 0,
         note |-> ""]] @@
    [pid \in DOMAIN data \ DOMAIN portfolio_mapping |->
        [project_id |-> pid,
         country |-> data[pid].country,
         has_documents |-> "Yes",
         document_count |-> data[pid].count,
         note |-> "Not in original portfolio"]]

\* the scan is over: the master inventory is made
GenerateMasterReport ==
    /\ pc = "scan"
    /\ pdf_files = {}
    /\ pc' = "reported"
    /\ report_data' = generate_master_report(master_data, country_mapping)
    /\ UNCHANGED <<word_files, input_pdfs, country_mapping, document_type, fs,
                   successful, failed, copied, placed, pdf_files, country_count,
                   moves, last, run, first_result, log, dirs, faults, attempts, skipped,
                   master_data, word_list, pool, threads, df>>
    /\ UNCHANGED <<base_path, returned, doc, language_suffix, corrected_pid,
                   standard_to_variants, standard_name>>

SpecReport ==
    InitReport /\ [][\/ \E pdf_file \in DOMAIN fs : ProcessDocument(pdf_file)
                     \/ GenerateMasterReport]_vars

(***************************************************************************)
(* A batch of convert_folder_to_pdf and the copy of the input PDFs, with   *)
(* Word raising on any attempt and the file system refusing any rename or  *)
(* copy.                                                                   *)
(***************************************************************************)
\* the most documents in the input directory of such a run
MaxBatch == 2

InitBatch ==
    /\ pc = "classify"
    /\ \E docs \in SUBSET ({1, 2, 8} \cup (DOMAIN Catalog \ DocIds)) :
          /\ Cardinality(docs) <= MaxBatch
          /\ word_files = {d \in docs : IsWordFile(Catalog[d].file)}
          /\ input_pdfs = {d \in docs : IsPdfFile(Catalog[d].file)}
    /\ country_mapping \in {NoMapping, SampleMapping}
    /\ document_type = <<>>
    /\ fs = [p \in {} |-> 0]
    /\ successful = 0 /\ failed = 0 /\ copied = 0
    /\ placed = [d \in {} |-> <<>>]
    /\ pdf_files = {}
    /\ country_count = 0
    /\ moves = {}
    /\ log = {}
    /\ dirs = UNION {{SubSeq(p.dir, 1, n) : n \in 1..Len(p.dir)} : p \in DOMAIN fs}
    /\ faults = TRUE
    /\ attempts = <<>>
    /\ skipped = 0
    /\ last = NoOp
    /\ run = 0
    /\ first_result = [p \in {} |-> 0]
    /\ UnitInit

SpecBatch ==
    InitBatch /\ [][\/ \E d \in DOMAIN Catalog : ProcessFile(d)
                    \/ \E d \in DOMAIN Catalog : CopyExistingPdf(d)]_vars

(***************************************************************************)
(* convert_folder_to_pdf: the Word documents go through process_file in    *)
(* batches, each batch on a thread pool.  A call of process_file is a      *)
(* sequence of steps: the output path is chosen, Word is started and saves *)
(* the PDF (up to Retries + 1 times), the PDF is classified and its name   *)
(* chosen, the PDF is renamed or copied.  taskkill /f /im WINWORD.EXE ends *)
(* every Word process of the machine, whichever thread started it.         *)
(***************************************************************************)
Max(a, b) == IF a > b THEN a ELSE b

\* get_optimal_worker_count: base_workers is max(1, cpu_count - 1), and
\* mem_factor comes in quarters (2, 3 or 4)
get_optimal_worker_count(file_count, base_workers, mem_quarters) ==
    LET file_limit == Max(1, file_count \div 2)
        worker_count == Max(1, Min(Min(base_workers, file_limit),
                                   (base_workers * mem_quarters) \div 4))
    IN  Min(worker_count, 8)

\* get_optimal_batch_size
get_optimal_batch_size(worker_count, base_batch) ==
    Max(5, (base_batch * 4) \div Max(1, worker_count))

\* the machines: the processors less one, and what psutil.virtual_memory()
\* makes of the memory (below 8 GB, below 16 GB, more)
Machines ==
    {[base_workers |-> 1, mem_quarters |-> 2, base_batch |-> 5],
     [base_workers |-> 3, mem_quarters |-> 4, base_batch |-> 20],
     [base_workers |-> 8, mem_quarters |-> 2, base_batch |-> 5]}

\* the Word documents of the input directory, in the order of os.walk
WordDocs == <<1, 16, 3, 4, 5, 13, 8, 14>>

\* the most Word documents in the input directory when Word may raise
MaxWordFiles == 4

\* the most Word documents in the input directory when it does not
MaxQueued == 7

\* how many times Word raises of its own in a run
MaxRaises == 1

\* a call of process_file a worker thread has just taken up
NewThread ==
    [at |-> "start", output_path |-> NoFile, attempt |-> 0, word |-> "none",
     raised |-> 0, pid_path |-> NoFile, how |-> ""]

InitPool(max_files, word_raises) ==
    /\ pc = "classify"
    /\ \E n \in 1..Min(max_files, Len(WordDocs)) : word_list = SubSeq(WordDocs, 1, n)
    /\ \E machine \in Machines :
          LET max_workers == get_optimal_worker_count(Len(word_list),
                                 machine.base_workers, machine.mem_quarters)
          IN  pool = [max_workers |-> max_workers,
                      batch_size |-> get_optimal_batch_size(max_workers, machine.base_batch),
                      i |-> 0, batch |-> <<>>]
    /\ threads = <<>>
    /\ df = <<>>
    /\ word_files = {word_list[k] : k \in DOMAIN word_list}
    /\ input_pdfs = {}
    /\ country_mapping = SampleMapping
    /\ document_type = <<>>
    /\ fs = [p \in {} |-> 0]
    /\ successful = 0 /\ failed = 0 /\ copied = 0
    /\ placed = [d \in {} |-> <<>>]
    /\ pdf_files = {}
    /\ country_count = 0
    /\ moves = {}
    /\ log = {}
    /\ dirs = {}
    /\ faults \in word_raises
    /\ attempts = <<>>
    /\ skipped = 0
    /\ last = NoOp
    /\ run = 0
    /\ first_result = [p \in {} |-> 0]
    /\ base_path = NoFile
    /\ returned = <<>>
    /\ doc = NoDoc
    /\ language_suffix = <<>>
    /\ corrected_pid = <<>>
    /\ standard_to_variants = <<>>
    /\ standard_name = <<>>
    /\ master_data = <<>>
    /\ report_data = <<>>

\* a few Word documents, and Word raising once
InitWorkers == InitPool(MaxWordFiles, BOOLEAN)

\* enough Word documents for a second batch
InitBatches == InitPool(MaxQueued, {FALSE})

\* what the pool steps leave alone
PoolUnchanged ==
    UNCHANGED <<pc, word_list, input_pdfs, country_mapping, document_type, copied,
                pdf_files, country_count, moves, run, first_result, dirs, faults,
                skipped, base_path, returned, doc, language_suffix,
                corrected_pid, standard_to_variants, standard_name, master_data,
                report_data, df>>

\* subprocess.run(["taskkill", "/f", "/im", "WINWORD.EXE"]): the Word
\* processes of all threads are gone
taskkill(ts) ==
    [d \in DOMAIN ts |->
        IF ts[d].word = "running" THEN [ts[d] EXCEPT !.word = "killed"] ELSE ts[d]]

\* the calls of process_file a worker thread is in: taken up, not returned
Running == DOMAIN threads \cap word_files

\* "for i in range(0, len(word_files), batch_size)": the next batch is cut
\* from the list, Word is killed, and the batch is submitted to a new executor
SubmitBatch ==
    /\ pc = "classify"
    /\ pool.batch = <<>>
    /\ pool.i < Len(word_list)
    /\ pool' = [pool EXCEPT !.batch = SubSeq(word_list, pool.i + 1,
                                         Min(pool.i + pool.batch_size, Len(word_list)))]
    /\ threads' = taskkill(threads)
    /\ log' = log \cup {[event |-> "taskkill", subject |-> <<>>,
                         detail |-> {<<"before", pool.i>>}]}
    /\ UNCHANGED <<word_files, fs, successful, failed, placed, last, attempts>>
    /\ PoolUnchanged

\* a worker thread takes the next call of the queue of the executor
Begin(d) ==
    /\ pc = "classify"
    /\ \E k \in DOMAIN pool.batch :
          /\ pool.batch[k] = d
          /\ \A j \in 1..(k - 1) : pool.batch[j] \in DOMAIN threads
    /\ d \notin DOMAIN threads
    /\ Cardinality(Running) < pool.max_workers
    /\ threads' = threads @@ (d :> NewThread)
    /\ UNCHANGED <<word_files, pool, fs, successful, failed, placed, last, log,
                   attempts>>
    /\ PoolUnchanged

\* process_file chooses the path Word is to save to, and convert_with_word
\* starts Word: win32com.client.DispatchEx("Word.Application") gives the
\* thread a Word process of its own
Start(d) ==
    /\ pc = "classify"
    /\ d \in Running
    /\ threads[d].at = "start"
    /\ threads' = [threads EXCEPT
                      ![d].at = "save", ![d].word = "running",
                      ![d].output_path =
                          get_unique_filename(fs, MkPath(RootDir,
                                                  Stem(Catalog[d].file) \o ExtPdf))]
    /\ UNCHANGED <<word_files, pool, fs, successful, failed, placed, last, log,
                   attempts>>
    /\ PoolUnchanged

\* the next attempt of convert_with_word starts Word again
Dispatch(d) ==
    /\ pc = "classify"
    /\ d \in Running
    /\ threads[d].at = "dispatch"
    /\ threads' = [threads EXCEPT ![d].at = "save", ![d].word = "running"]
    /\ UNCHANGED <<word_files, pool, fs, successful, failed, placed, last, log,
                   attempts>>
    /\ PoolUnchanged

\* Documents.Open and SaveAs, and what follows an exception: the PDF is
\* written; or the attempt raises, because Word does or because the Word
\* process is gone, and before the next attempt every Word process is killed,
\* or after the last attempt process_file returns the failure
SaveAs(d) ==
    /\ pc = "classify"
    /\ d \in Running
    /\ threads[d].at = "save"
    /\ LET t == threads[d]
           may_raise == faults /\ \A e \in DOMAIN threads : threads[e].raised < MaxRaises
       IN  \E raises \in (IF t.word = "killed" THEN {TRUE}
                          ELSE IF may_raise THEN BOOLEAN ELSE {FALSE}) :
              IF ~raises
              THEN /\ fs' = WriteFile(fs, t.output_path, d)
                   /\ threads' = [threads EXCEPT ![d].at = "classify", ![d].word = "none"]
                   /\ UNCHANGED <<word_files, failed, log>>
              ELSE IF t.attempt < Retries
              THEN /\ threads' =
                         [taskkill(threads) EXCEPT
                             ![d] = [t EXCEPT !.at = "dispatch", !.word = "none",
                                              !.attempt = @ + 1,
                                              !.raised = IF t.word = "killed" THEN @
                                                         ELSE @ + 1]]
                   /\ log' = log \cup
                         {[event |-> "killed", subject |-> Catalog[e].file,
                           detail |-> {Catalog[d].file}] :
                             e \in {e \in DOMAIN threads \ {d} :
                                        threads[e].word = "running"}}
                   /\ UNCHANGED <<word_files, fs, failed>>
              ELSE /\ threads' = [threads EXCEPT ![d].at = "done", ![d].word = "none",
                                          ![d].raised = IF t.word = "killed" THEN @
                                                        ELSE @ + 1]
                   /\ failed' = failed + 1
                   /\ word_files' = word_files \ {d}
                   /\ UNCHANGED <<fs, log>>
    /\ UNCHANGED <<pool, successful, placed, last, attempts>>
    /\ PoolUnchanged

\* what the extractors read at pdf_path: the document that lies there, or
\* nothing (0) when the file is gone
PdfAt(files, path) == IF Exists(files, path) THEN files[path] ELSE 0

\* the mutant: a name another thread is about to write counts as taken
PidPathReserved(files, ts, d, base) ==
    LET held == {ts[e].pid_path : e \in {e \in DOMAIN ts \ {d} : ts[e].at = "rename"}}
    IN  MkPath(RootDir, ResolveName(files @@ [p \in held |-> 1], RootDir, base, ExtPdf))

\* the name is taken whatever the other threads are about to write
PidPath(files, ts, d, base) == MkPath(RootDir, ResolveName(files, RootDir, base, ExtPdf))

\* the converted PDF is classified, and the name it is to get is looked for
\* with os.path.exists
Classify(d) ==
    /\ pc = "classify"
    /\ d \in Running
    /\ threads[d].at = "classify"
    /\ \E sorted_countries \in SortedCountries(extract_unique_countries(country_mapping)) :
          LET c == PdfAt(fs, threads[d].output_path)
              target == process_file(IF c = 0
                                     THEN [Catalog[d] EXCEPT !.readable = FALSE]
                                     ELSE [Catalog[c] EXCEPT !.file = Catalog[d].file],
                                     country_mapping, sorted_countries)
          IN  threads' = [threads EXCEPT ![d].at = "rename",
                                         ![d].pid_path = PidPath(fs, threads, d, target.base),
                                         ![d].how = target.how]
    /\ UNCHANGED <<word_files, pool, fs, successful, failed, placed, last, log,
                   attempts>>
    /\ PoolUnchanged

\* os.rename(pdf_path, pid_path), or shutil.copy2 for a country match; an
\* OSError is logged, and process_file returns success either way
Rename(d) ==
    /\ pc = "classify"
    /\ d \in Running
    /\ threads[d].at = "rename"
    /\ LET t == threads[d]
           oserror == \/ ~Exists(fs, t.output_path)
                      \/ t.how = "rename" /\ Exists(fs, t.pid_path)
       IN  /\ threads' = [threads EXCEPT ![d].at = "done"]
           /\ IF oserror
              THEN /\ log' = log \cup {[event |-> IF t.how = "rename"
                                                   THEN "Error renaming"
                                                   ELSE "Error copying",
                                         subject |-> Catalog[d].file,
                                         detail |-> {}]}
                   /\ UNCHANGED <<fs, placed, last>>
              ELSE /\ fs' = IF t.how = "rename"
                            THEN MoveFile(fs, t.output_path, t.pid_path)
                            ELSE CopyFile(fs, t.output_path, t.pid_path)
                   /\ placed' = placed @@ (d :> t.pid_path.name)
                   /\ last' = FileOp("process_file", t.output_path, t.pid_path, fs,
                                     fs[t.output_path])
                   /\ UNCHANGED log
    /\ successful' = successful + 1
    /\ word_files' = word_files \ {d}
    /\ UNCHANGED <<pool, failed, attempts>>
    /\ PoolUnchanged

\* the mutant: the loop goes on without waiting for the calls of the batch
FinishBatchEarly ==
    /\ pc = "classify"
    /\ pool.batch # <<>>
    /\ pool' = [pool EXCEPT !.batch = <<>>, !.i = @ + pool.batch_size]
    /\ threads' = taskkill(threads)
    /\ log' = log \cup {[event |-> "taskkill", subject |-> <<>>,
                         detail |-> {<<"after", pool.i>>}]}
    /\ UNCHANGED <<word_files, fs, successful, failed, placed, last, attempts>>
    /\ PoolUnchanged

\* the executor is left once every call of the batch has returned; Word is
\* killed again, and the loop goes on to the next batch
FinishBatch ==
    /\ pc = "classify"
    /\ pool.batch # <<>>
    /\ \A k \in DOMAIN pool.batch : pool.batch[k] \notin word_files
    /\ pool' = [pool EXCEPT !.batch = <<>>, !.i = @ + pool.batch_size]
    /\ threads' = taskkill(threads)
    /\ log' = log \cup {[event |-> "taskkill", subject |-> <<>>,
                         detail |-> {<<"after", pool.i>>}]}
    /\ UNCHANGED <<word_files, fs, successful, failed, placed, last, attempts>>
    /\ PoolUnchanged

SpecWorkers ==
    InitWorkers /\ [][\/ SubmitBatch
                      \/ \E d \in DOMAIN Catalog : Begin(d)
                      \/ \E d \in DOMAIN Catalog : Start(d)
                      \/ \E d \in DOMAIN Catalog : Dispatch(d)
                      \/ \E d \in DOMAIN Catalog : SaveAs(d)
                      \/ \E d \in DOMAIN Catalog : Classify(d)
                      \/ \E d \in DOMAIN Catalog : Rename(d)
                      \/ FinishBatch]_vars

\* the batches one after the other, each call of process_file in one step
SpecBatches ==
    InitBatches /\ [][\/ SubmitBatch
                      \/ \E d \in DOMAIN Catalog : Begin(d)
                      \/ \E d \in DOMAIN threads : ProcessFile(d)
                      \/ FinishBatch]_vars

(***************************************************************************)
(* load_project_country_mapping: the rows of the spreadsheet are read one  *)
(* by one, the cells as str() gives them.                                  *)
(***************************************************************************)
\* the most rows of the spreadsheet
MaxSheetRows == 2

\* project_id.lower() == 'nan'
IsNan(s) == Lower(s) = <<"n", "a", "n">>

\* the key a cell of the identifier column is stored under, <<>> when the
\* row is skipped or the cell is dropped
clean_project_id(cell) ==
    LET project_id == Strip(cell)
        prefixed == IF ~StartsWith(project_id, <<"P">>) /\ AllDigits(project_id)
                    THEN <<"P">> \o project_id
                    ELSE project_id
        \* re.sub(r'[^P0-9]', '', project_id)
        cleaned == SelectSeq(prefixed, LAMBDA c : c = "P" \/ IsDigit(c))
    IN  IF project_id = <<>> \/ IsNan(project_id) THEN <<>>
        ELSE IF MatchesPidPrefix(cleaned) THEN cleaned
        ELSE <<>>

InitMapping ==
    LET Cells == {<<"P", "1", "2", "3", "4", "5", "6">>,
                  <<"1", "2", "3", "4", "5", "6">>,
                  <<" ", "P", "-", "1", "1", "1", "1", "1", "1">>,
                  <<"P", "1", "2", "3", "4", "5">>,
                  <<"1", "2", "3", "4", "5", "6", "7">>,
                  <<"P", "1", "2", "3", "4", "5", "6", " ", "P", "i", "l", "o", "t">>,
                  <<"n", "a", "n">>}
        Countries == {<<"K", "e", "n", "y", "a", " ">>, <<"n", "a", "n">>}
    IN  /\ pc = "load"
        /\ \E n \in 1..MaxSheetRows :
              df \in [1..n -> [project_id : Cells, country : Countries]]
        /\ country_mapping = NoMapping
        /\ word_files = {} /\ input_pdfs = {}
        /\ document_type = <<>>
        /\ fs = [p \in {} |-> 0]
        /\ successful = 0 /\ failed = 0 /\ copied = 0
        /\ placed = [d \in {} |-> <<>>]
        /\ pdf_files = {}
        /\ country_count = 0
        /\ moves = {}
        /\ log = {}
        /\ dirs = {}
        /\ faults = FALSE
        /\ attempts = <<>>
        /\ skipped = 0
        /\ last = NoOp
        /\ run = 0
        /\ first_result = [p \in {} |-> 0]
        /\ base_path = NoFile
        /\ returned = <<>>
        /\ doc = NoDoc
        /\ language_suffix = <<>>
        /\ corrected_pid = <<>>
        /\ standard_to_variants = <<>>
        /\ standard_name = <<>>
        /\ master_data = <<>>
        /\ report_data = <<>>
        /\ PoolIdle

\* one iteration of "for _, row in df.iterrows()"; after the last row the
\* mapping is returned
LoadRow ==
    /\ pc = "load"
    /\ df # <<>>
    /\ LET row == Head(df)
           project_id == clean_project_id(row.project_id)
           country == Strip(row.country)
       IN  country_mapping' =
              IF project_id = <<>> \/ country = <<>> \/ IsNan(country)
              THEN country_mapping
              ELSE [k \in DOMAIN country_mapping \cup {project_id} |->
                       IF k = project_id THEN country ELSE country_mapping[k]]
    /\ df' = Tail(df)
    /\ pc' = IF Tail(df) = <<>> THEN "loaded" ELSE "load"
    /\ UNCHANGED <<word_files, input_pdfs, document_type, fs, successful, failed,
                   copied, placed, pdf_files, country_count, moves, last, run,
                   first_result, log, dirs, faults, attempts, skipped, base_path,
                   returned, doc, language_suffix, corrected_pid,
                   standard_to_variants, standard_name, master_data, report_data,
                   word_list, pool, threads>>

SpecMapping == InitMapping /\ [][LoadRow]_vars

(***************************************************************************)
(* The claims.                                                             *)
(***************************************************************************)
\* the output files that hold document d
OutputsOf(d) == {p \in DOMAIN fs : fs[p] = d}

\* p lies in one of the three category folders, or below one
InBucket(p) == p.dir # <<>> /\ <<p.dir[1]>> \in CategoryFolders

\* the pipeline has run to its end: classification, then one reorganization
FullRunDone == pc = "done" /\ run = 1

\* C1: after a full run every successfully processed input document is
\* represented by exactly one output PDF, and that PDF lies in exactly one of
\* the three buckets.  (The statement of the claim; it does not hold.)
C1_OneOutputInOneBucket ==
    FullRunDone =>
        \A d \in DOMAIN placed :
            /\ Cardinality(OutputsOf(d)) = 1
            /\ \A p \in OutputsOf(d) : InBucket(p)

\* C1: the run the claim fails on: a Word document named by country match has
\* two output PDFs after the full run, in two different buckets
C1_TwoOutputs ==
    /\ FullRunDone
    /\ \E d \in DOMAIN placed : \E p, q \in OutputsOf(d) :
          /\ p.dir[1] = CountryFolderName
          /\ q.dir = failed_folder

\* C2: no step of a sequential run writes onto a path that already exists:
\* every write, rename, copy or move goes to a path that was free.  (The
\* statement of the claim; it does not hold.)
C2_NoWriteOntoExistingPath == ~last.existed /\ ~last.rename_failed

\* C2: the step the claim fails on: the renaming that adds the document type
\* was aimed, unprobed, at a path that exists
C2_RenameOntoExisting == last.op = "reorganize_output_folder" /\ last.rename_failed

\* C3: in a sequence of calls of get_unique_filename, each returned path
\* created before the next call, a call on a path that exists returns a path
\* that differs from its input and from every path returned earlier.
C3_FreshPath ==
    \A i \in 1..Len(returned) :
        returned[i].existed =>
            /\ returned[i].path # returned[i].base_path
            /\ \A j \in 1..(i - 1) : returned[j].path # returned[i].path

\* C3: three calls on the same taken path, in a directory where the suffixes
\* up to 99 are taken too: the third call is past the two-digit suffixes
C3_ThreeCallsOnTakenPath ==
    /\ Len(returned) = 3
    /\ \A i \in 1..3 : returned[i].existed /\ returned[i].base_path = returned[1].base_path
    /\ returned[1].path = Suffixed(MaxTaken + 1)

\* C4: running reorganize_output_folder a second time, with the same
\* document type, on the directory it has reorganized leaves the name and the
\* folder of every PDF unchanged.  (The statement of the claim; it does not
\* hold.)
C4_SecondRunChangesNothing ==
    (pc = "done" /\ run = 2) => fs = first_result

\* C4: the run the claim fails on: after the second run a file carries the
\* document type twice
C4_TypeAddedTwice ==
    /\ pc = "done" /\ run = 2
    /\ document_type # <<>>
    /\ \E p \in DOMAIN fs :
          /\ p \notin DOMAIN first_result
          /\ EndsWith(p.name, Underscore \o document_type \o Underscore \o document_type \o ExtPdf)

\* the bucket the claim gives a file name
C5_Bucket(filename) ==
    IF \/ StartsWith(filename, <<"C", "O", "U", "N", "T", "R", "Y", "_">>)
       \/ /\ Len(filename) >= 7
          /\ filename[1] = "P"
          /\ \A i \in 2..7 : filename[i] \in DigitSet
    THEN <<<<"C", "o", "u", "n", "t", "r", "y", " ", "A", "s", "s", "o", "c", "i", "a", "t", "e", "d", " ", "D", "o", "c", "u", "m", "e", "n", "t", "s">>>>
    ELSE IF StartsWith(filename, <<"U", "N", "K", "N", "O", "W", "N", "_">>)
    THEN <<<<"U", "n", "k", "n", "o", "w", "n", " ", "C", "o", "u", "n", "t", "r", "i", "e", "s">>>>
    ELSE <<<<"F", "a", "i", "l", "e", "d", " ", "C", "o", "n", "v", "e", "r", "s", "i", "o", "n", "s", " ", "a", "n", "d", " ", "R", "e", "n", "a", "m", "i", "n", "g">>>>

\* C5: the bucketing pass routes a PDF by the prefix of its name alone:
\* COUNTRY_ or P and six digits to Country Associated Documents, otherwise
\* UNKNOWN_ to Unknown Countries, otherwise to Failed Conversions and
\* Renaming; the file is then in that folder and nowhere else.
C5_RoutedByPrefix ==
    (pc = "route" /\ last.op = "reorganize_output_folder") =>
        /\ last.dst.dir = C5_Bucket(last.src.name)
        /\ Exists(fs, last.dst) /\ fs[last.dst] = last.content
        /\ ~Exists(fs, last.src)

\* C5: a file whose name starts with P but not with P and six digits has gone
\* to Failed Conversions and Renaming
C5_NearIdentifierRouted ==
    /\ pc = "route" /\ last.op = "reorganize_output_folder"
    /\ last.src.name[1] = "P"
    /\ last.dst.dir = failed_folder

\* the identifier found for a document: in its content, else in its file name
IdentifierOf(d) ==
    IF extract_project_id(Catalog[d]) # <<>> THEN extract_project_id(Catalog[d])
    ELSE extract_project_id_from_filename(Catalog[d].file)

\* name is base.pdf, or base_NN.pdf with NN the first suffix whose name was
\* not taken in the output directory
NamedOrSuffixed(base, name) ==
    \/ name = base \o ExtPdf
    \/ \E n \in 1..Cardinality(DOMAIN fs) :
          /\ name = base \o <<"_">> \o Format02d(n) \o ExtPdf
          /\ Exists(fs, MkPath(RootDir, base \o ExtPdf))
          /\ \A k \in 1..(n - 1) :
                Exists(fs, MkPath(RootDir, base \o <<"_">> \o Format02d(k) \o ExtPdf))

\* the country of the mapping with its spaces written as underscores
C6_Country(id) ==
    [i \in 1..Len(country_mapping[id]) |->
        IF country_mapping[id][i] = " " THEN "_" ELSE country_mapping[id][i]]

\* I_C_L or I_L
C6_Base(id, tag) ==
    IF id \in DOMAIN country_mapping
    THEN id \o <<"_">> \o C6_Country(id) \o <<"_">> \o tag
    ELSE id \o <<"_">> \o tag

\* C6: when an identifier I is found for a document and its language tag is
\* L, the name the classification gives it is I_C_L.pdf, C the mapping's value
\* for the key I with spaces as underscores, or I_L.pdf when I is no key of
\* the mapping, with a _NN suffix when that name is taken; the text of the
\* document plays no part in the country.
C6_IdentifierName ==
    pc = "classify" =>
        \A d \in DOMAIN placed :
            IdentifierOf(d) # <<>> =>
                NamedOrSuffixed(C6_Base(IdentifierOf(d), detect_language(Catalog[d])),
                                placed[d])

\* C6 as stated, without a suffix: the name is always I_C_L.pdf or I_L.pdf
C6_IdentifierNameUnsuffixed ==
    pc = "classify" =>
        \A d \in DOMAIN placed :
            IdentifierOf(d) # <<>> =>
                placed[d] = C6_Base(IdentifierOf(d), detect_language(Catalog[d])) \o ExtPdf

\* C6: two documents that mention P123456, France its country in the mapping:
\* one is P123456_France_EN.pdf, the other P123456_France_EN_01.pdf
C6_SameIdentifierTwice ==
    /\ pc = "classify"
    /\ \E d, e \in DOMAIN placed :
          /\ placed[d] = <<"P", "1", "2", "3", "4", "5", "6", "_", "F", "r", "a", "n", "c", "e", "_", "E", "N", ".", "p", "d", "f">>
          /\ placed[e] = <<"P", "1", "2", "3", "4", "5", "6", "_", "F", "r", "a", "n", "c", "e", "_", "E", "N", "_", "0", "1", ".", "p", "d", "f">>

\* the document has no extractable text at all
NoText(d) == \A i \in 1..Len(Catalog[d].pages) : Catalog[d].pages[i] = <<>>

\* C7: a document with no extractable text at all and no identifier in its
\* file name is named SCAN_OCR_DOCUMENT.pdf, with a _NN suffix only when that
\* name is taken.
C7_ScanName ==
    pc = "classify" =>
        \A d \in DOMAIN placed :
            (NoText(d) /\ extract_project_id_from_filename(Catalog[d].file) = <<>>) =>
                NamedOrSuffixed(<<"S", "C", "A", "N", "_", "O", "C", "R", "_", "D", "O", "C", "U", "M", "E", "N", "T">>, placed[d])

\* C7 as stated: every document with no extractable text is named so
C7_ScanNameWhateverTheFileName ==
    pc = "classify" =>
        \A d \in DOMAIN placed :
            NoText(d) => NamedOrSuffixed(<<"S", "C", "A", "N", "_", "O", "C", "R", "_", "D", "O", "C", "U", "M", "E", "N", "T">>, placed[d])

\* C7: two documents without text: the second is SCAN_OCR_DOCUMENT_01.pdf
C7_TwoScans ==
    /\ pc = "classify"
    /\ \E d, e \in DOMAIN placed :
          /\ NoText(d) /\ placed[d] = <<"S", "C", "A", "N", "_", "O", "C", "R", "_", "D", "O", "C", "U", "M", "E", "N", "T", ".", "p", "d", "f">>
          /\ NoText(e) /\ placed[e] = <<"S", "C", "A", "N", "_", "O", "C", "R", "_", "D", "O", "C", "U", "M", "E", "N", "T", "_", "0", "1", ".", "p", "d", "f">>

\* the values of the mapping
MappingCountries == {country_mapping[k] : k \in DOMAIN country_mapping}

\* the names of names that the first n pages of the document mention
MentionedIn(d, names, n) ==
    {c \in names : \E i \in 1..Min(Len(Catalog[d].pages), n) :
                      PatternSearch(c, Catalog[d].pages[i])}

\* the countries of the mapping, World aside, in the first 10 pages
C8_Mentioned(d) == MentionedIn(d, MappingCountries \ {<<"W", "o", "r", "l", "d">>}, 10)

\* the standard names of the country_variants entries of which the first 10
\* pages mention a variant; only process_file searches for these
C8_VariantsMentioned(d) ==
    IF IsWordFile(Catalog[d].file)
    THEN {COUNTRY_VARIANTS[i].standard : i \in
             {i \in 1..Len(COUNTRY_VARIANTS) :
                 MentionedIn(d, {COUNTRY_VARIANTS[i].variants[j] :
                                    j \in 1..Len(COUNTRY_VARIANTS[i].variants)}, 10) # {}}}
    ELSE {}

\* no identifier and a language tag other than OCR
C8_CountrySearched(d) ==
    IdentifierOf(d) = <<>> /\ detect_language(Catalog[d]) # <<"O", "C", "R">>

C9_NoCountryMatch(d) ==
    \/ MappingCountries \ {<<"W", "o", "r", "l", "d">>} = {}
    \/ C8_Mentioned(d) = {} /\ C8_VariantsMentioned(d) = {}

\* C9: a document with no identifier, a language tag other than OCR and no
\* country match is named UNKNOWN_{LANG}.pdf, with a _NN suffix when that
\* name is taken.
C9_UnknownName ==
    pc = "classify" =>
        \A d \in DOMAIN placed :
            (C8_CountrySearched(d) /\ C9_NoCountryMatch(d)) =>
                NamedOrSuffixed(<<"U", "N", "K", "N", "O", "W", "N", "_">> \o detect_language(Catalog[d]), placed[d])

\* C9 as stated, without a suffix
C9_UnknownNameUnsuffixed ==
    pc = "classify" =>
        \A d \in DOMAIN placed :
            (C8_CountrySearched(d) /\ C9_NoCountryMatch(d)) =>
                placed[d] = <<"U", "N", "K", "N", "O", "W", "N", "_">> \o detect_language(Catalog[d]) \o ExtPdf

\* C9: a non-English document is UNKNOWN_NON.pdf, and of two English documents
\* without a match the second is UNKNOWN_EN_01.pdf
C9_UnknownTwice ==
    /\ pc = "classify"
    /\ \E d, e \in DOMAIN placed :
          /\ placed[d] = <<"U", "N", "K", "N", "O", "W", "N", "_", "E", "N", ".", "p", "d", "f">>
          /\ placed[e] = <<"U", "N", "K", "N", "O", "W", "N", "_", "E", "N", "_", "0", "1", ".", "p", "d", "f">>

\* the text of the checked pages: the first 3, or all when there are fewer
C10_CheckedText ==
    LET n == IF Len(doc.pages) < 3 THEN Len(doc.pages) ELSE 3
        upTo[i \in 0..n] == IF i = 0 THEN <<>> ELSE upTo[i - 1] \o doc.pages[i]
    IN  upTo[n]

\* how many characters are left of text once stripped
C10_StrippedLen(text) ==
    LET inked == {i \in 1..Len(text) : text[i] # " "}
    IN  IF inked = {} THEN 0
        ELSE (CHOOSE i \in inked : \A j \in inked : j <= i)
                 - (CHOOSE i \in inked : \A j \in inked : i <= j) + 1

\* C10: detect_language returns OCR, and so never UNK, for every document it
\* can read whose checked pages yield fewer than 50 stripped characters in
\* total, none at all included.
C10_ScannedIsOcr ==
    (pc = "detected" /\ doc.readable /\ C10_StrippedLen(C10_CheckedText) < 50) =>
        language_suffix = <<"O", "C", "R">>

\* C10: a document whose checked pages hold more than 50 characters, fewer
\* than 50 of them once stripped, and whose fourth page holds text enough for
\* detection, has come out as OCR
C10_StrippedBelowFloor ==
    /\ pc = "detected" /\ doc.readable
    /\ Len(C10_CheckedText) > 50
    /\ C10_StrippedLen(C10_CheckedText) \in 1..49
    /\ Len(doc.pages) = 4 /\ Len(doc.pages[4]) > 100
    /\ language_suffix = <<"O", "C", "R">>

\* C11: detect_language returns UNK for every document whose text accumulated
\* over the checked pages has at least 50 characters once stripped and at most
\* 100 characters as extracted.
C11_ShortTextIsUnk ==
    (/\ pc = "detected" /\ doc.readable
     /\ C10_StrippedLen(C10_CheckedText) >= 50
     /\ Len(C10_CheckedText) <= 100) =>
        language_suffix = <<"U", "N", "K">>

\* C11 as stated: detect_language returns UNK for every document whose text
\* accumulated over the checked pages has between 50 and 100 stripped
\* characters.
C11_ShortStrippedTextIsUnk ==
    (/\ pc = "detected" /\ doc.readable
     /\ C10_StrippedLen(C10_CheckedText) \in 50..100) =>
        language_suffix = <<"U", "N", "K">>

\* C11: a document of exactly 100 characters over two checked pages, which
\* detect() would have called English, has come out as UNK
C11_HundredCharacters ==
    /\ pc = "detected" /\ doc.readable /\ doc.lang = "en"
    /\ Len(doc.pages) >= 2
    /\ Len(C10_CheckedText) = 100
    /\ C10_StrippedLen(C10_CheckedText) = 100
    /\ language_suffix = <<"U", "N", "K">>

\* the identifier pattern matches text at position i: P, then six characters
\* each a decimal digit or the letter O
C12_MatchAt(text, i) ==
    /\ i + 6 <= Len(text)
    /\ text[i] = "P"
    /\ \A n \in 1..6 : text[i + n] \in {"0", "1", "2", "3", "4", "5", "6", "7", "8", "9", "O"}

C12_HasMatch(text) == \E i \in 1..Len(text) : C12_MatchAt(text, i)

\* C12: every identifier extract_project_id returns is P followed by exactly
\* six decimal digits, and it is the first match of the first page that has one,
\* each letter O after the P rewritten to the digit 0.
C12_IdentifierFromContent ==
    (pc = "extracted" /\ corrected_pid # <<>>) =>
        /\ Len(corrected_pid) = 7
        /\ corrected_pid[1] = "P"
        /\ \A n \in 2..7 :
              corrected_pid[n] \in {"0", "1", "2", "3", "4", "5", "6", "7", "8", "9"}
        /\ \E k \in 1..Len(doc.pages) :
              /\ \A j \in 1..(k - 1) : ~C12_HasMatch(doc.pages[j])
              /\ \E i \in 1..Len(doc.pages[k]) :
                    /\ C12_MatchAt(doc.pages[k], i)
                    /\ \A h \in 1..(i - 1) : ~C12_MatchAt(doc.pages[k], h)
                    /\ \A n \in 1..6 :
                          corrected_pid[n + 1] =
                              IF doc.pages[k][i + n] = "O" THEN "0"
                              ELSE doc.pages[k][i + n]

\* C12: P12O456 on the tenth page, the first page with text, has given P120456,
\* whatever the page after it holds
C12_LetterRewritten ==
    /\ pc = "extracted"
    /\ Len(doc.pages) = 11
    /\ doc.pages[10] = <<"n", "o", " ", "P", "1", "2", "O", "4", "5", "6", ".">>
    /\ C12_HasMatch(doc.pages[11])
    /\ corrected_pid = <<"P", "1", "2", "0", "4", "5", "6">>

\* every name extract_country_from_pdf searches for: the countries of the
\* mapping, with their underscores and with spaces for them, and the names of
\* the variants table
C13_Searched ==
    MappingCountries
    \cup {ReplaceChar(c, "_", <<" ">>) : c \in MappingCountries}
    \cup UNION {{standard_to_variants[i].standard}
                 \cup {standard_to_variants[i].variants[j] :
                          j \in 1..Len(standard_to_variants[i].variants)} :
                 i \in 1..Len(standard_to_variants)}

\* the first of the first 10 pages on which one of them matches, 0 for none
C13_FirstPage ==
    LET n == IF Len(doc.pages) < 10 THEN Len(doc.pages) ELSE 10
        hits == {p \in 1..n : \E c \in C13_Searched : PatternSearch(c, doc.pages[p])}
    IN  IF hits = {} THEN 0 ELSE CHOOSE p \in hits : \A q \in hits : p <= q

\* the variants table maps a country of the mapping to another name
C13_Remapped ==
    \E c \in MappingCountries : \E i \in 1..Len(standard_to_variants) :
        \/ \E j \in 1..Len(standard_to_variants[i].variants) :
              /\ Lower(standard_to_variants[i].variants[j]) = Lower(c)
              /\ standard_to_variants[i].standard # c
        \/ /\ Lower(standard_to_variants[i].standard) = Lower(c)
           /\ standard_to_variants[i].standard # c

\* C13: extract_country_from_pdf tests the names in descending order of
\* length, page by page: when the shorter of two configured names is a
\* word-bounded part of the longer and the longer matches as a whole word on
\* the first of the first 10 pages on which any searched name matches, the
\* shorter name is not returned, and the longer one is, unless another
\* configured name at least as long matches that page too; this when the
\* variants table maps no configured name to another name.
C13_LongerNameFirst ==
    pc = "matched" =>
        \A L, S \in MappingCountries :
            (/\ Len(S) < Len(L) /\ PatternSearch(S, L)
             /\ C13_FirstPage # 0
             /\ PatternSearch(L, doc.pages[C13_FirstPage])
             /\ ~C13_Remapped) =>
                /\ standard_name # S
                /\ (\A N \in MappingCountries \ {L} :
                        Len(N) >= Len(L) =>
                            /\ ~PatternSearch(N, doc.pages[C13_FirstPage])
                            /\ ~PatternSearch(ReplaceChar(N, "_", <<" ">>),
                                              doc.pages[C13_FirstPage]))
                    => standard_name = L

\* C13 as stated: when the shorter of two configured names is a word-bounded
\* part of the longer and the text contains the longer name, the longer name
\* is the one returned.
C13_LongerNameReturned ==
    pc = "matched" =>
        \A L, S \in MappingCountries :
            (/\ Len(S) < Len(L) /\ PatternSearch(S, L)
             /\ \E p \in 1..Len(doc.pages) : PatternSearch(L, doc.pages[p])) =>
                standard_name = L

\* C13: India and British India configured, no variants; the first page
\* reads "in british india.", the second "India": British India is returned
C13_BritishIndia ==
    LET India == <<"I", "n", "d", "i", "a">>
        BritishIndia == <<"B", "r", "i", "t", "i", "s", "h", " ", "I", "n", "d", "i", "a">>
    IN  /\ pc = "matched"
        /\ MappingCountries = {India, BritishIndia}
        /\ standard_to_variants = <<>>
        /\ Len(doc.pages) = 2
        /\ PatternSearch(BritishIndia, doc.pages[1]) /\ doc.pages[1] # BritishIndia
        /\ doc.pages[2] = India
        /\ standard_name = BritishIndia

\* the files of this name, wherever they lie
C14_Named(name) == {p \in DOMAIN fs : p.name = name}

\* the consolidation of these spellings under this name has been reported
C14_Reported(name, spellings) ==
    \E e \in log : /\ e.event = "Consolidated country variants"
                   /\ e.subject = name
                   /\ e.detail = spellings

\* C14: organize_by_country places the two files COUNTRY_Cote_d_Ivoire_EN.pdf
\* and "COUNTRY_Cote d Ivoire_EN.pdf" into the same country folder,
\* Cote_D_Ivoire, because both spellings normalize to the same canonical name,
\* and it reports the consolidation of the two variants.
C14_SpellingsConsolidated ==
    (/\ pc = "done"
     /\ C14_Named(<<"C", "O", "U", "N", "T", "R", "Y", "_", "C", "o", "t", "e", "_", "d", "_", "I", "v", "o", "i", "r", "e", "_", "E", "N", ".", "p", "d", "f">>) # {}
     /\ C14_Named(<<"C", "O", "U", "N", "T", "R", "Y", "_", "C", "o", "t", "e", " ", "d", " ", "I", "v", "o", "i", "r", "e", "_", "E", "N", ".", "p", "d", "f">>) # {}) =>
        /\ \A p \in C14_Named(<<"C", "O", "U", "N", "T", "R", "Y", "_", "C", "o", "t", "e", "_", "d", "_", "I", "v", "o", "i", "r", "e", "_", "E", "N", ".", "p", "d", "f">>)
                    \cup C14_Named(<<"C", "O", "U", "N", "T", "R", "Y", "_", "C", "o", "t", "e", " ", "d", " ", "I", "v", "o", "i", "r", "e", "_", "E", "N", ".", "p", "d", "f">>) :
              p.dir = country_folder \o <<<<"C", "o", "t", "e", "_", "D", "_", "I", "v", "o", "i", "r", "e">>>>
        /\ C14_Reported(<<"C", "o", "t", "e", " ", "D", " ", "I", "v", "o", "i", "r", "e">>,
                        {<<"C", "o", "t", "e", "_", "d", "_", "I", "v", "o", "i", "r", "e">>, <<"C", "o", "t", "e", " ", "d", " ", "I", "v", "o", "i", "r", "e">>})

\* C14 as stated: the two files COUNTRY_Cote_d_Ivoire_EN.pdf and
\* "COUNTRY_Cote d'Ivoire_EN.pdf" end in the same country folder, and the
\* consolidation of the two variants is reported.
C14_ApostropheConsolidated ==
    (/\ pc = "done"
     /\ C14_Named(<<"C", "O", "U", "N", "T", "R", "Y", "_", "C", "o", "t", "e", "_", "d", "_", "I", "v", "o", "i", "r", "e", "_", "E", "N", ".", "p", "d", "f">>) # {}
     /\ C14_Named(<<"C", "O", "U", "N", "T", "R", "Y", "_", "C", "o", "t", "e", " ", "d", "'", "I", "v", "o", "i", "r", "e", "_", "E", "N", ".", "p", "d", "f">>) # {}) =>
        /\ \A p, r \in C14_Named(<<"C", "O", "U", "N", "T", "R", "Y", "_", "C", "o", "t", "e", "_", "d", "_", "I", "v", "o", "i", "r", "e", "_", "E", "N", ".", "p", "d", "f">>)
                       \cup C14_Named(<<"C", "O", "U", "N", "T", "R", "Y", "_", "C", "o", "t", "e", " ", "d", "'", "I", "v", "o", "i", "r", "e", "_", "E", "N", ".", "p", "d", "f">>) :
              p.dir = r.dir
        /\ \E e \in log : /\ e.event = "Consolidated country variants"
                          /\ e.detail = {<<"C", "o", "t", "e", "_", "d", "_", "I", "v", "o", "i", "r", "e">>, <<"C", "o", "t", "e", " ", "d", "'", "I", "v", "o", "i", "r", "e">>}

\* C14: the underscore and the space spelling lie in Cote_D_Ivoire, the
\* spelling with the apostrophe in a folder of its own
C14_ThreeSpellings ==
    /\ pc = "done"
    /\ C14_Reported(<<"C", "o", "t", "e", " ", "D", " ", "I", "v", "o", "i", "r", "e">>,
                    {<<"C", "o", "t", "e", "_", "d", "_", "I", "v", "o", "i", "r", "e">>, <<"C", "o", "t", "e", " ", "d", " ", "I", "v", "o", "i", "r", "e">>})
    /\ \E p \in C14_Named(<<"C", "O", "U", "N", "T", "R", "Y", "_", "C", "o", "t", "e", "_", "d", "_", "I", "v", "o", "i", "r", "e", "_", "E", "N", ".", "p", "d", "f">>) :
       \E r \in C14_Named(<<"C", "O", "U", "N", "T", "R", "Y", "_", "C", "o", "t", "e", " ", "d", " ", "I", "v", "o", "i", "r", "e", "_", "E", "N", ".", "p", "d", "f">>) :
          p.dir = r.dir /\ p.dir = country_folder \o <<<<"C", "o", "t", "e", "_", "D", "_", "I", "v", "o", "i", "r", "e">>>>
    /\ \E p \in C14_Named(<<"C", "O", "U", "N", "T", "R", "Y", "_", "C", "o", "t", "e", " ", "d", "'", "I", "v", "o", "i", "r", "e", "_", "E", "N", ".", "p", "d", "f">>) :
          p.dir = country_folder \o <<<<"C", "o", "t", "e", "_", "D", "'", "I", "v", "o", "i", "r", "e">>>>


\* C15: when the rename or copy that gives a document its name raises, the
\* error is logged and the documents still to come stay ready to be
\* processed; copy_existing_pdfs counts the PDF as skipped and not as
\* copied, while process_file still reports success, so that a Word
\* document is counted among the successful ones, its PDF left under the
\* name Word gave it
C15_ErrorsOf(extension) ==
    {e \in log : /\ e.event \in {"Error renaming", "Error copying"}
                 /\ EndsWith(Lower(e.subject), extension)}

C15_PlacedOf(extension) ==
    {d \in DOMAIN placed : EndsWith(Lower(Catalog[d].file), extension)}

C15_Counted ==
    /\ skipped = Cardinality(C15_ErrorsOf(ExtPdf))
    /\ copied = Cardinality(C15_PlacedOf(ExtPdf))
    /\ successful = Cardinality(C15_PlacedOf(ExtDocx) \cup C15_PlacedOf(ExtDoc))
                      + Cardinality(C15_ErrorsOf(ExtDocx) \cup C15_ErrorsOf(ExtDoc))
    /\ \A e \in C15_ErrorsOf(ExtDocx) \cup C15_ErrorsOf(ExtDoc) :
          \E p \in DOMAIN fs : p.dir = RootDir /\ p.name = Stem(e.subject) \o ExtPdf

\* a step, one that logs an error too, takes one document from those still
\* to come and leaves the others where they wait
C15_OneDocument ==
    /\ pc' = "classify"
    /\ \E d \in word_files \cup input_pdfs :
          /\ word_files' = word_files \ {d}
          /\ input_pdfs' = input_pdfs \ {d}
    /\ successful' + failed' + copied' + skipped' =
          successful + failed + copied + skipped + 1

C15_ErrorLoggedBatchGoesOn == []C15_Counted /\ [][C15_OneDocument]_vars

\* C15 as the specification words it: a Word document whose rename raised
\* is not among the successful ones
C15_RenameErrorNotSuccessful ==
    successful = Cardinality(C15_PlacedOf(ExtDocx) \cup C15_PlacedOf(ExtDoc))

\* a rename raised for one Word document, a copy for one PDF, and the batch
\* went on to its end
C15_ErrorThenEnd ==
    /\ word_files = {} /\ input_pdfs = {}
    /\ \E e \in log : e.event = "Error renaming"
    /\ successful = 1 /\ failed = 0
    /\ skipped = 1 /\ copied = 0

\* C16: a call of convert_with_word makes at most Retries + 1 attempts and
\* none after the one that succeeds, and it gives up only after Retries + 1
\* of them; when they all raise, process_file reports a failure, the failed
\* counter grows by exactly one and no other counter moves, and the other
\* documents stay where they wait
C16_AllRaised(made) == \A i \in DOMAIN made : ~made[i]

C16_Call ==
    word_files' # word_files =>
        /\ Len(attempts') \in 1..(Retries + 1)
        /\ \A i \in 1..(Len(attempts') - 1) : ~attempts'[i]
        /\ C16_AllRaised(attempts') => Len(attempts') = Retries + 1
        /\ IF C16_AllRaised(attempts')
           THEN /\ failed' = failed + 1
                /\ UNCHANGED <<successful, copied, skipped, fs, placed>>
           ELSE failed' = failed
        /\ \E d \in word_files : word_files' = word_files \ {d}
        /\ input_pdfs' = input_pdfs
        /\ pc' = "classify"

C16_RetriesThenFailure == [][C16_Call]_vars

\* Word raised on every attempt for one document, on the first two for
\* another, which was converted
C16_FailedAndRetried ==
    /\ failed = 1 /\ successful = 1
    /\ word_files = {}
    /\ attempts \in {<<FALSE, FALSE, FALSE>>, <<FALSE, FALSE, TRUE>>}

\* C17: the master inventory has one row for each identifier of the
\* portfolio mapping or of the name of a scanned PDF, and no other row; a
\* row carries the note "Not in original portfolio" exactly when its
\* identifier is not in the portfolio mapping
C17_Scanned ==
    {p \in DOMAIN fs : /\ IsPdfFile(p.name)
                       /\ Len(p.dir) \in {2, 3}
                       /\ SubSeq(p.dir, 1, 1) = country_folder}

C17_IdentifierAt(name, i) ==
    /\ i + 6 <= Len(name)
    /\ name[i] = "P"
    /\ \A j \in (i + 1)..(i + 6) : IsDigit(name[j])

C17_Discovered ==
    UNION {{SubSeq(p.name, i, i + 6) :
               i \in {k \in 1..Len(p.name) :
                         /\ C17_IdentifierAt(p.name, k)
                         /\ \A h \in 1..(k - 1) : ~C17_IdentifierAt(p.name, h)}} :
           p \in C17_Scanned}

C17_OneRowPerIdentifier ==
    pc = "reported" =>
        /\ DOMAIN report_data = DOMAIN country_mapping \cup C17_Discovered
        /\ \A pid \in DOMAIN report_data :
              /\ report_data[pid].project_id = pid
              /\ report_data[pid].note = "Not in original portfolio"
                    <=> pid \notin DOMAIN country_mapping

\* the inventory has a row of the portfolio without a document, a row of the
\* portfolio with documents and a row for an identifier found in a name only
C17_ThreeKindsOfRow ==
    /\ pc = "reported"
    /\ \E pid \in DOMAIN report_data :
          pid \in DOMAIN country_mapping /\ pid \notin C17_Discovered
    /\ \E pid \in DOMAIN report_data :
          pid \in DOMAIN country_mapping /\ pid \in C17_Discovered
    /\ \E pid \in DOMAIN report_data :
          /\ pid \notin DOMAIN country_mapping
          /\ report_data[pid].note = "Not in original portfolio"

\* C18: a document whose text gives an identifier is named after that
\* identifier by process_file and by copy_existing_pdfs, also when its file
\* name holds another identifier followed by - or _; a document is named
\* after the identifier of its file name only when its text gives none
C18_Identifiers ==
    {<<"P", "1", "2", "3", "4", "5", "6">>, <<"P", "4", "4", "4", "4", "4", "4">>,
     <<"P", "5", "5", "5", "5", "5", "5">>}

C18_InText(id, d) ==
    /\ Catalog[d].readable
    /\ \E i \in 1..Len(Catalog[d].pages) :
          /\ \A h \in 1..i : Catalog[d].pages[h] # RaisingPage
          /\ \E k \in 1..Len(Catalog[d].pages[i]) :
                /\ k + 6 <= Len(Catalog[d].pages[i])
                /\ SubSeq(Catalog[d].pages[i], k, k + 6) = id

C18_InName(id, d) ==
    \E k \in 1..Len(Catalog[d].file) :
       /\ k + 7 <= Len(Catalog[d].file)
       /\ SubSeq(Catalog[d].file, k, k + 6) = id
       /\ Catalog[d].file[k + 7] \in {"-", "_"}

C18_ContentIdentifierFirst ==
    \A d \in DOMAIN placed :
       /\ \A id \in C18_Identifiers :
             C18_InText(id, d) => StartsWith(placed[d], id \o <<"_">>)
       /\ \A id \in C18_Identifiers :
             (C18_InName(id, d) /\ StartsWith(placed[d], id \o <<"_">>))
                => \A other \in C18_Identifiers \ {id} : ~C18_InText(other, d)

\* a converted Word document and a copied PDF, both with P444444 in the file
\* name and P123456 in the text, are named after P123456
C18_BothPaths ==
    \E w \in DOMAIN placed : \E c \in DOMAIN placed :
       /\ IsWordFile(Catalog[w].file) /\ IsPdfFile(Catalog[c].file)
       /\ C18_InName(<<"P", "4", "4", "4", "4", "4", "4">>, w)
       /\ C18_InName(<<"P", "4", "4", "4", "4", "4", "4">>, c)
       /\ StartsWith(placed[w], <<"P", "1", "2", "3", "4", "5", "6", "_">>)
       /\ StartsWith(placed[c], <<"P", "1", "2", "3", "4", "5", "6", "_">>)

\* C19: a document that cannot be opened as a PDF, or whose first page
\* raises when its text is extracted, is not counted as failed unless Word
\* raised on every attempt to convert it; no identifier and no country is
\* taken from its text and its language tag is UNK: unless its rename or
\* copy raises, it is placed as UNKNOWN_UNK, or after the identifier of its
\* file name followed by _UNK
C19_Unreadable(d) ==
    \/ ~Catalog[d].readable
    \/ Len(Catalog[d].pages) > 0 /\ Catalog[d].pages[1] = RaisingPage

C19_NothingRead(d, name) ==
    LET project_id == extract_project_id_from_filename(Catalog[d].file)
    IN  StartsWith(name, (IF project_id # <<>> THEN project_id
                          ELSE <<"U", "N", "K", "N", "O", "W", "N">>)
                         \o <<"_", "U", "N", "K">>)

C19_Handled ==
    \A d \in (word_files \cup input_pdfs) \ (word_files' \cup input_pdfs') :
       C19_Unreadable(d) =>
          \/ /\ failed' = failed + 1
             /\ IsWordFile(Catalog[d].file)
             /\ Len(attempts') = Retries + 1
             /\ \A i \in DOMAIN attempts' : ~attempts'[i]
          \/ /\ failed' = failed
             /\ \E e \in log' \ log : e.subject = Catalog[d].file
          \/ /\ failed' = failed
             /\ d \in DOMAIN placed'
             /\ C19_NothingRead(d, placed'[d])
             /\ fs'[MkPath(RootDir, placed'[d])] = d

C19_UnreadableIsPlaced == [][C19_Handled]_vars

\* C19 as the specification words it: whatever the page that raises, the
\* document is placed as one from which nothing was read
C19_AnyRaisingPageNothingRead ==
    \A d \in DOMAIN placed :
       (\E i \in DOMAIN Catalog[d].pages : Catalog[d].pages[i] = RaisingPage)
          => C19_NothingRead(d, placed[d])

\* a Word document that cannot be opened once converted and a PDF whose
\* first page raises have been placed, and nothing is counted as failed
C19_BothPlaced ==
    /\ failed = 0
    /\ \E w \in DOMAIN placed :
          /\ ~Catalog[w].readable
          /\ placed[w] = <<"P", "6", "6", "6", "6", "6", "6", "_", "U", "N", "K", ".", "p", "d", "f">>
    /\ \E c \in DOMAIN placed :
          /\ Catalog[c].pages[1] = RaisingPage
          /\ placed[c] = <<"U", "N", "K", "N", "O", "W", "N", "_", "U", "N", "K", ".", "p", "d", "f">>

\* C20: after organize_by_document_type, a country folder holds PDFs in
\* subfolders exactly when its PDFs carry more than one document type (en,
\* non, unk and ocr are no type); then each PDF with a type lies in the
\* subfolder named by its type in upper case, and otherwise every PDF of
\* the country lies directly in its folder
C20_Under(country) ==
    {p \in DOMAIN fs : /\ IsPdfFile(p.name)
                       /\ Len(p.dir) >= 2
                       /\ SubSeq(p.dir, 1, 2) = country}

C20_Types(country) ==
    {DocTypeOfFilename(p.name) : p \in C20_Under(country)} \ {<<>>}

C20_TypeFolders(country) ==
    {d \in dirs : Len(d) > 2 /\ SubSeq(d, 1, 2) = country}

C20_Organized ==
    /\ pc = "done"
    /\ \E e \in log : /\ e.event = "ORGANIZING COUNTRY DOCUMENTS BY TYPE"
                      /\ e.detail = {run}

C21_Routed == IF pc = "route" /\ pc' = "route" THEN pdf_files \ pdf_files' ELSE {}

\* name is the old name with _T before its extension, or before the numeric
\* suffix the old base name ends in
C21_TokenAdded(old, name) ==
    LET base == SplitExt(old)[1]
        ext == SplitExt(old)[2]
        token == <<"_">> \o document_type
        cuts == {k \in 1..Len(base) :
                    base[k] = "_" /\ AllDigits(SubSeq(base, k + 1, Len(base)))}
    IN  IF cuts = {} THEN name = base \o token \o ext
        ELSE \E k \in cuts :
                name = SubSeq(base, 1, k - 1) \o token
                          \o SubSeq(base, k, Len(base)) \o ext

\* the first half of C21: every PDF that is renamed gets the document type
\* at the end of its base name, before a numeric suffix if it has one
C21_Token ==
    \A pdf_file \in C21_Routed :
       (document_type # <<>> /\ ~last'.rename_failed) =>
          C21_TokenAdded(pdf_file.name, last'.src.name)

C21_TokenBeforeSuffix == [][C21_Token]_vars

\* the second half: the renamed file goes to the folder its old name names
C21_SameBucket ==
    \A pdf_file \in C21_Routed :
       (document_type # <<>> /\ ~last'.rename_failed) =>
          last'.dst.dir = TargetFolder(pdf_file.name)

\* C21: when a document type T is supplied, every PDF renamed by
\* reorganize_output_folder has _T at the end of its base name, or before
\* the numeric suffix _digits the base name ends in, and the renaming never
\* changes the folder the prefix of the name sends the file to.  (The
\* statement of the claim; its second half does not hold.)
C21_TokenAddedBucketKept == [][C21_Token /\ C21_SameBucket]_vars

\* C21: the step the claim fails on: UNKNOWN.pdf, a name of the Failed
\* folder, has become UNKNOWN_icrr.pdf and was moved to Unknown Countries
C21_UnknownGetsItsPrefix ==
    /\ last.op = "reorganize_output_folder"
    /\ last.src.name = <<"U", "N", "K", "N", "O", "W", "N", "_", "i", "c", "r", "r", ".", "p", "d", "f">>
    /\ last.dst.dir = unknown_folder

\* a name with a numeric suffix got the document type before the suffix
C21_TypeBeforeSuffix ==
    /\ last.op = "reorganize_output_folder"
    /\ document_type # <<>>
    /\ ~last.rename_failed
    /\ EndsWith(last.src.name, <<"_">> \o document_type \o <<"_", "0", "1">> \o ExtPdf)

\* C22: the look for a free name and the write are two steps with no lock
\* between them: the name a worker thread chooses is the first one free in
\* the file system alone, whatever names the other threads have chosen and
\* not yet written; so two threads can hold the same destination path
C22_ChosenFromFilesAlone ==
    [][\A d \in DOMAIN threads :
          (d \in DOMAIN threads' /\ threads[d].at = "classify"
                                 /\ threads'[d].at = "rename") =>
             \E sorted_countries \in
                    SortedCountries(extract_unique_countries(country_mapping)) :
                LET c == PdfAt(fs, threads[d].output_path)
                    target == process_file(
                                  IF c = 0
                                  THEN [Catalog[d] EXCEPT !.readable = FALSE]
                                  ELSE [Catalog[c] EXCEPT !.file = Catalog[d].file],
                                  country_mapping, sorted_countries)
                IN  /\ ~Exists(fs, threads'[d].pid_path)
                    /\ threads'[d].pid_path =
                          MkPath(RootDir, ResolveName(fs, RootDir, target.base, ExtPdf))]_vars

\* two worker threads have both found the same name free, and neither has
\* written it yet
C22_BothSelectSame ==
    \E d, e \in Running :
        /\ d # e
        /\ threads[d].at = "rename" /\ threads[e].at = "rename"
        /\ threads[d].pid_path = threads[e].pid_path
        /\ ~Exists(fs, threads[d].pid_path)

\* the place of a Word document in the list, and the batch that place falls in
C23_Place(d) == CHOOSE k \in DOMAIN word_list : word_list[k] = d

C23_BatchOf(d) == (C23_Place(d) - 1) \div pool.batch_size

\* the starts of the batches submitted so far, and whether Word was killed
\* before or after the batch that starts at i
C23_Submitted == {i \in 0..Len(word_list) : \E e \in log :
                     e.event = "taskkill" /\ e.detail = {<<"before", i>>}}

C23_Killed(when, i) ==
    [event |-> "taskkill", subject |-> <<>>, detail |-> {<<when, i>>}] \in log

\* C23: the Word documents go through in consecutive batches of batch_size:
\* every document lies in at most one submitted batch, and in exactly one
\* once the loop is through; no document is taken up while a document of an
\* earlier batch has not returned from process_file, with success or with
\* failure; and Word is killed before each batch is submitted and after each
\* batch has returned
C23_BatchesInTurn ==
    LET size == pool.batch_size
        docs == {word_list[k] : k \in DOMAIN word_list}
        inBatch(k, i) == i < k /\ k <= i + size
    IN  /\ pool.i % size = 0
        /\ \A i \in C23_Submitted : i % size = 0 /\ i <= pool.i
        /\ \A k \in DOMAIN word_list :
              /\ Cardinality({i \in C23_Submitted : inBatch(k, i)}) <= 1
              /\ (pool.i >= Len(word_list) /\ pool.batch = <<>>) =>
                     Cardinality({i \in C23_Submitted : inBatch(k, i)}) = 1
        /\ pool.batch # <<>> =>
              /\ pool.i \in C23_Submitted
              /\ pool.batch = SubSeq(word_list, pool.i + 1,
                                     Min(pool.i + size, Len(word_list)))
        /\ \A d \in DOMAIN threads :
              /\ C23_Killed("before", C23_BatchOf(d) * size)
              /\ \A e \in docs :
                    C23_BatchOf(e) < C23_BatchOf(d) =>
                       /\ e \in DOMAIN threads
                       /\ e \notin word_files
                       /\ C23_Killed("after", C23_BatchOf(e) * size)
        /\ \A i \in C23_Submitted :
              (i < pool.i \/ pool.batch = <<>>) => C23_Killed("after", i)
        /\ successful + failed = Cardinality(docs \ word_files)

\* a document of the second batch has been taken up, after a document of
\* the first batch failed and another succeeded
C23_SecondBatchStarted ==
    /\ \E d \in DOMAIN threads : C23_BatchOf(d) = 1 /\ d \in word_files
    /\ failed > 0 /\ successful > 0
    /\ C23_Killed("after", 0)

\* C26: the clean-up after a failed attempt of one worker thread leaves the
\* conversions the other threads have in progress alone: no thread stands
\* before SaveAs with its Word process killed
C26_NoConversionKilled ==
    \A d \in Running : ~(threads[d].at = "save" /\ threads[d].word = "killed")

\* a document has failed on every attempt although Word never raised on it
\* of its own: each attempt ended when another thread killed every Word
C26_FailedByOthers ==
    \E d \in DOMAIN threads :
        /\ threads[d].at = "done" /\ threads[d].pid_path = NoFile
        /\ threads[d].attempt = Retries
        /\ threads[d].raised = 0
        /\ failed > 0

RECURSIVE C24_Number(_)
\* the number a string of decimal digits stands for
C24_Number(s) ==
    IF s = <<>> THEN 0
    ELSE 10 * C24_Number(SubSeq(s, 1, Len(s) - 1))
         + (CHOOSE v \in 0..9 : Digits[v + 1] = s[Len(s)])

\* name is root, "_", the number n in two digits or more, and ext
C24_Numbered(name, root, ext, n) ==
    LET from == Len(root) + 2
        to == Len(name) - Len(ext)
        digits == SubSeq(name, from, to)
    IN  /\ to - from + 1 >= 2
        /\ SubSeq(name, 1, Len(root)) = root
        /\ name[Len(root) + 1] = "_"
        /\ SubSeq(name, to + 1, Len(name)) = ext
        /\ AllDigits(digits)
        /\ (to - from + 1 > 2 => digits[1] # "0")
        /\ C24_Number(digits) = n

\* C24: get_unique_filename returns base_path as it is when no file is
\* there; else the path with _NN before the extension for the smallest
\* N >= 1 whose path is free, N written in two digits or more; it returns
\* for every set of files (N is at most the number of files), and no file
\* there was is changed or removed
C24_SmallestFreeSuffix ==
    [][Len(returned') = Len(returned) + 1 =>
          LET r == returned'[Len(returned')]
              se == SplitExt(r.base_path.name)
          IN  /\ ~Exists(fs, r.path)
              /\ ~Exists(fs, r.base_path) => r.path = r.base_path
              /\ Exists(fs, r.base_path) =>
                    \E n \in 1..Cardinality(DOMAIN fs) :
                       /\ r.path.dir = r.base_path.dir
                       /\ C24_Numbered(r.path.name, se[1], se[2], n)
                       /\ \A m \in 1..(n - 1) :
                             \E q \in DOMAIN fs :
                                /\ q.dir = r.base_path.dir
                                /\ C24_Numbered(q.name, se[1], se[2], m)
              /\ \A p \in DOMAIN fs : p \in DOMAIN fs' /\ fs'[p] = fs[p]]_vars

\* a call that returned the path as it was, and a call that returned the
\* first suffix of three digits, x_100.pdf
C24_FreeFirstAndHundredth ==
    /\ \E k \in DOMAIN returned : returned[k].path = returned[k].base_path
    /\ \E k \in DOMAIN returned :
          /\ returned[k].base_path = MkPath(RootDir, <<"x", ".", "p", "d", "f">>)
          /\ returned[k].path = MkPath(RootDir, <<"x", "_", "1", "0", "0", ".", "p", "d", "f">>)

\* C25: once reorganize_output_folder is through, no PDF lies directly in
\* the folder Country Associated Documents: every file routed there has
\* been moved on into the subfolder of a country
C25_NoneLeftInCountryFolder ==
    (pc = "done" /\ run = 1) => ListPdfFiles(fs, country_folder) = {}

\* the pipeline has named a document after an identifier that has no
\* mapping entry, and at the end of the run the file lies directly in
\* Country Associated Documents
C25_IdentifierWithoutCountryLeft ==
    /\ pc = "done" /\ run = 1
    /\ \E d \in DOMAIN placed :
          /\ MatchesPidPrefix(placed[d])
          /\ CountryOfFilename(placed[d]) = <<>>
          /\ \E p \in ListPdfFiles(fs, country_folder) :
                p.name = AddDocumentType(placed[d], document_type)
    /\ CountrySubfolders(fs) # {}

\* C27: in the master inventory a row says "Yes" under Has Documents if and
\* only if its Document Count is above 0, for the identifiers of the
\* portfolio and for those found in documents only
C27_YesIffCounted ==
    pc = "reported" =>
        \A pid \in DOMAIN report_data :
            (report_data[pid].has_documents = "Yes") <=> (report_data[pid].document_count > 0)

\* the inventory has a row of the portfolio that says "Yes" with a count of
\* 0, beside a row of the portfolio and a row found in documents only that
\* say "Yes" with a count above 0
C27_YesWithoutDocuments ==
    /\ pc = "reported"
    /\ \E pid \in DOMAIN report_data :
          /\ pid \in DOMAIN country_mapping
          /\ report_data[pid].has_documents = "Yes"
          /\ report_data[pid].document_count = 0
    /\ \E pid \in DOMAIN report_data :
          /\ pid \in DOMAIN country_mapping
          /\ report_data[pid].has_documents = "Yes"
          /\ report_data[pid].document_count > 0
    /\ \E pid \in DOMAIN report_data :
          /\ pid \notin DOMAIN country_mapping
          /\ report_data[pid].has_documents = "Yes"
          /\ report_data[pid].document_count > 0

\* C28: every key of the mapping load_project_country_mapping returns is
\* the letter P and exactly six digits after it
C28_KeysArePAndSixDigits ==
    \A k \in DOMAIN country_mapping :
        Len(k) = 7 /\ k[1] = "P" /\ \A i \in 2..7 : IsDigit(k[i])

\* the mapping returned holds a key of seven digits, from a cell of digits
\* only, and a key that ends in a second P
C28_LongKeys ==
    /\ pc = "loaded"
    /\ <<"P", "1", "2", "3", "4", "5", "6", "7">> \in DOMAIN country_mapping
    /\ <<"P", "1", "2", "3", "4", "5", "6", "P">> \in DOMAIN country_mapping

\* C29: the country the text match returns when there is no identifier is
\* null or one of the known countries taken from the values of the mapping,
\* also when a dictionary of variants is given to the matcher
C29_MatchIsKnownCountry ==
    pc = "matched" =>
        \/ standard_name = <<>>
        \/ standard_name \in extract_unique_countries(country_mapping)

\* the matcher has returned India, the standard name of a variants table,
\* for a mapping whose only country is Chad
C29_StandardNameOutsideMapping ==
    /\ pc = "matched"
    /\ standard_name = <<"I", "n", "d", "i", "a">>
    /\ extract_unique_countries(country_mapping) = {<<"C", "h", "a", "d">>}
    /\ standard_to_variants # <<>>

\* without a variants table the country returned is a known country
C29_KnownWithoutVariants ==
    (pc = "matched" /\ standard_to_variants = <<>>) =>
        \/ standard_name = <<>>
        \/ standard_name \in extract_unique_countries(country_mapping)

\* C30: process_file gives a converted Word document the name that
\* copy_existing_pdfs chooses for a PDF of the same text and file name,
\* with the same mapping and the same files in the target directory
C30_SameNameAsCopy ==
    [][\A d \in DocIds :
          (d \in word_files /\ d \notin word_files' /\ d \in DOMAIN placed') =>
             \E sorted_countries \in
                    SortedCountries(extract_unique_countries(country_mapping)) :
                LET output_path == get_unique_filename(fs,
                                       MkPath(RootDir, Stem(Catalog[d].file) \o ExtPdf))
                    files == WriteFile(fs, output_path, d)
                IN  placed'[d] =
                       ResolveName(files, RootDir,
                                   copy_existing_pdfs(Catalog[d], country_mapping,
                                                      sorted_countries),
                                   ExtPdf)]_vars

\* a Word document has been named after a country by process_file, and
\* copy_existing_pdfs names a PDF of the same text UNKNOWN
C30_CountryHereUnknownThere ==
    \E d \in DOMAIN placed :
        /\ d \in DocIds
        /\ IsWordFile(Catalog[d].file)
        /\ StartsWith(placed[d], CountryPrefix)
        /\ \A sorted_countries \in
                  SortedCountries(extract_unique_countries(country_mapping)) :
              copy_existing_pdfs(Catalog[d], country_mapping, sorted_countries)
                  = UnknownBase(LangEN)
====
